---- MODULE Spec2Model ----
(***************************************************************************)
(* A model of cobana: the module detector, the per-file analyzers'         *)
(* accumulators, the debt/health calculators and the CodebaseAnalyzer      *)
(* pipeline that drives them.                                              *)
(*                                                                         *)
(* Strings are sequences of one-character strings, so that str.startswith  *)
(* is a prefix test on characters, as in the code.  Floats are modelled    *)
(* as exact rationals <<numerator, denominator>>.                          *)
(***************************************************************************)
EXTENDS Integers, Sequences, FiniteSets, TLC

VARIABLES
    \* ModuleDetector
    config,        \* the configuration dict the detector holds a reference to
    modules,       \* ModuleDetector.modules
    cache,         \* ModuleDetector._file_to_module_cache
    ret,           \* what the last detector call returned
    calls,         \* how many detector calls a caller has made
    \* CodebaseAnalyzer.analyze
    pc,            \* the step analyze() is at
    fsys,          \* the .py files of the tree: file -> attributes
    all_files,     \* analyze(): the list the scanner yielded
    idx,           \* analyze(): how many files of all_files are done
    scanner,       \* FileScanner counters
    log,           \* the stage events of the run, in order
    results,       \* CodebaseAnalyzer.results (None before _build_results)
    \* the per-file analyzers
    acc,           \* the analyzers' results dicts and the files fed to them
    \* ModuleHealthCalculator
    hs,            \* the calculator's inputs and its results dict
    \* TechnicalDebtCalculator
    td,            \* the calculator's inputs, cost table and results dict
    \* DatabaseCouplingAnalyzer on a long run of files
    ds,            \* the files to come, the number fed and the results dict
    \* ModuleCouplingAnalyzer on a code base of many modules
    mcs,           \* the modules, the files to come, the number fed, the results
    \* ClassMetricsAnalyzer on one class
    cl,            \* the class and what the analyzer computed for it
    \* load_config and the command line
    cf,            \* the dict objects of the process and the configurations returned
    \* TestAnalyzer.infer_test_module on one test file
    itm            \* the file and what two runs inferred for it

detVars  == <<config, modules, cache, ret, calls>>
pipeVars == <<pc, fsys, all_files, idx, scanner, log, results>>
extVars  == <<acc, hs, td, ds, mcs, cl>>
auxVars  == <<cf, itm>>
vars     == <<detVars, pipeVars, extVars, auxVars>>

None == "None"

\* No analyzer and no health calculator has been constructed.
AccIdle == [files |-> {}, order |-> <<>>, r |-> None, finalized |-> FALSE]
HealthIdle == [modules |-> <<>>, inputs |-> None, results |-> None, done |-> FALSE]
DebtIdle == [files |-> {}, inputs |-> None, costs |-> None, results |-> None,
             finalized |-> FALSE, done |-> FALSE]
StreamIdle == [plan |-> <<>>, fed |-> 0, r |-> None, finalized |-> FALSE]
CouplingIdle == [mods |-> <<>>, files |-> <<>>, fed |-> 0, r |-> None, finalized |-> FALSE,
                 first |-> None, again |-> FALSE]
ClassIdle == [class |-> None, info |-> None, done |-> FALSE]
ConfigIdle == [dicts |-> <<>>, loaded |-> <<>>]
InferIdle == [file |-> None, runs |-> <<>>]

ExtIdle ==
    /\ acc = AccIdle
    /\ hs = HealthIdle
    /\ td = DebtIdle
    /\ ds = StreamIdle
    /\ mcs = CouplingIdle
    /\ cl = ClassIdle
    /\ cf = ConfigIdle
    /\ itm = InferIdle

(***************************************************************************)
(* Strings                                                                 *)
(***************************************************************************)
StartsWith(s, p) ==
    /\ Len(p) <= Len(s)
    /\ SubSeq(s, 1, Len(p)) = p

ROOT == <<"r", "o", "o", "t">>

\* str(rel_path) of the files and directories of the model's trees
P_a   == <<"a">>
P_b   == <<"b">>
P_ab  == <<"a", "b">>
P_a_b == <<"a", "/", "b">>
P_a_x   == <<"a", "/", "x">>
P_a_b_x == <<"a", "/", "b", "/", "x">>
P_ab_x  == <<"a", "b", "/", "x">>
P_b_x   == <<"b", "/", "x">>
P_x     == <<"x">>
P_b_b   == <<"b", "/", "b">>
P_dot_h == <<".", "h">>

(***************************************************************************)
(* Module and ModuleDetector (utils/module_detector.py)                    *)
(***************************************************************************)
Module(name, path) == [name |-> name, path |-> path]

\* fnmatch.fnmatch(s, p) for patterns of literal characters, "?" and "*"
RECURSIVE Fnmatch(_, _)
Fnmatch(s, p) ==
    IF p = <<>> THEN s = <<>>
    ELSE IF Head(p) = "*"
         THEN \/ Fnmatch(s, Tail(p))
              \/ (s # <<>> /\ Fnmatch(Tail(s), p))
         ELSE /\ s # <<>>
              /\ (Head(p) = "?" \/ Head(p) = Head(s))
              /\ Fnmatch(Tail(s), Tail(p))

\* The directories below the root, each as its list of path segments.
Tree == { <<P_a>>, <<P_a, P_b>>, <<P_ab>>, <<P_b>>, <<P_b, P_b>>, <<P_dot_h>>,
          <<P_dot_h, P_b>> }

RECURSIVE JoinPath(_)
JoinPath(parts) ==
    IF Len(parts) = 1 THEN parts[1]
    ELSE parts[1] \o <<"/">> \o JoinPath(Tail(parts))

DirName(d) == d[Len(d)]

Children(parent) ==
    { d \in Tree : Len(d) = Len(parent) + 1 /\ SubSeq(d, 1, Len(parent)) = parent }

\* _should_exclude without its test for hidden directories
ShouldExclude_PatternsOnly(d, exclude_patterns) ==
    \E i \in 1..Len(exclude_patterns) :
        \/ Fnmatch(JoinPath(d), exclude_patterns[i])
        \/ Fnmatch(DirName(d), exclude_patterns[i])

\* ModuleDetector._should_exclude, for a directory inside the root
ShouldExclude(d, exclude_patterns) ==
    \/ \E i \in 1..Len(exclude_patterns) :
          \/ Fnmatch(JoinPath(d), exclude_patterns[i])
          \/ Fnmatch(DirName(d), exclude_patterns[i])
    \/ Head(DirName(d)) = "."

\* All the orders in which iterdir() may yield the set S
RECURSIVE Orders(_)
Orders(S) ==
    IF S = {} THEN { <<>> }
    ELSE UNION { { <<x>> \o rest : rest \in Orders(S \ {x}) } : x \in S }

\* The module lists the loop over one directory's entries can produce: each
\* entry at the target depth is a module, each entry above it is descended.
RECURSIVE DetectAtDepth(_, _, _, _)
RECURSIVE ScanItems(_, _, _)
ScanItems(items, target_depth, exclude_patterns) ==
    IF items = <<>> THEN { <<>> }
    ELSE LET item == Head(items)
             item_depth == Len(item)
             here ==
                 IF ShouldExclude(item, exclude_patterns) THEN { <<>> }
                 ELSE IF item_depth = target_depth
                      THEN { << Module(DirName(item), JoinPath(item)) >> }
                 ELSE IF item_depth < target_depth
                      THEN DetectAtDepth(item, target_depth, item_depth,
                                         exclude_patterns)
                 ELSE { <<>> }
         IN  { h \o t : h \in here,
                        t \in ScanItems(Tail(items), target_depth, exclude_patterns) }

\* ModuleDetector._detect_at_depth
DetectAtDepth(current_dir, target_depth, current_depth, exclude_patterns) ==
    IF current_depth >= target_depth THEN { <<>> }
    ELSE UNION { ScanItems(o, target_depth, exclude_patterns) :
                 o \in Orders(Children(current_dir)) }

\* ModuleDetector._detect_auto
DetectAuto(cfg) ==
    UNION { ScanItems(o, cfg.depth, cfg.exclude_patterns) :
            o \in Orders(Children(<<>>)) }

\* ModuleDetector._detect_manual
DetectManual(cfg) == { cfg.manual_modules }

\* The manual_modules lists and whole configurations of the model.
M_a  == Module(P_a, P_a)
M_ab == Module(P_ab, P_a_b)
M_b  == Module(P_b, P_b)
M_bb == Module(P_b, P_b_b)

ManualLists ==
    { <<>>, <<M_a>>, <<M_a, M_ab>>, <<M_ab, M_a>>, <<M_a, M_b>>, <<M_b, M_bb>> }

ExcludeLists == { <<>>, << <<"a", "*">> >>, << <<"a", "b">>, <<"a", "/", "*">> >> }

Config(method, depth, manual, excl) ==
    [method |-> method, depth |-> depth, manual_modules |-> manual,
     exclude_patterns |-> excl]

Methods == {"manual", "auto", "bogus"}

Configs ==
    { Config("manual", 1, l, <<>>) : l \in ManualLists }
      \cup { Config("auto", d, <<>>, e) : d \in {1, 2}, e \in ExcludeLists }
      \cup { Config("bogus", 1, <<>>, <<>>) }

\* A file path handed to get_module_for_file: inside the root (rel is its
\* root-relative string) or outside it (relative_to raises ValueError).
InsidePaths == {P_a_x, P_a_b_x, P_ab_x, P_b_x, P_x}
FilePath(outside, rel) == [outside |-> outside, rel |-> rel]
FilePaths ==
    { FilePath(FALSE, r) : r \in InsidePaths } \cup { FilePath(TRUE, P_a_x) }

\* The loop of get_module_for_file: the first module of the list whose path
\* the relative path string starts with.
RECURSIVE FirstMatch(_, _)
FirstMatch(mods, rel_path_str) ==
    IF mods = <<>> THEN ROOT
    ELSE IF StartsWith(rel_path_str, Head(mods).path) THEN Head(mods).name
    ELSE FirstMatch(Tail(mods), rel_path_str)

\* get_module_for_file without its cache
Lookup(mods, file_path) ==
    IF file_path.outside THEN ROOT ELSE FirstMatch(mods, file_path.rel)

\* ModuleDetector.get_module_for_file: the value returned, and the cache after
GetModuleValue(mods, c, file_path) ==
    IF file_path \in DOMAIN c THEN c[file_path] ELSE Lookup(mods, file_path)

GetModuleCache(mods, c, file_path) ==
    IF file_path \in DOMAIN c THEN c
    ELSE (file_path :> Lookup(mods, file_path)) @@ c

EmptyCache == <<>>

MaxCalls == 3

\* detect_modules taking every method that is not manual as auto
DetectModules_DefaultsToAuto ==
    /\ calls < MaxCalls
    /\ calls' = calls + 1
    /\ IF config.method = "manual"
       THEN \E ms \in DetectManual(config) :
               /\ modules' = ms
               /\ ret' = [op |-> "detect", arg |-> None, cached |-> FALSE, val |-> ms,
                         raised |-> FALSE]
       ELSE \E ms \in DetectAuto(config) :
               /\ modules' = ms
               /\ ret' = [op |-> "detect", arg |-> None, cached |-> FALSE, val |-> ms,
                         raised |-> FALSE]
    /\ UNCHANGED <<auxVars, extVars, config, cache, pipeVars>>

\* ModuleDetector.detect_modules
DetectModules ==
    /\ calls < MaxCalls
    /\ calls' = calls + 1
    /\ IF config.method = "manual"
       THEN \E ms \in DetectManual(config) :
               /\ modules' = ms
               /\ ret' = [op |-> "detect", arg |-> None, cached |-> FALSE, val |-> ms,
                         raised |-> FALSE]
       ELSE IF config.method = "auto"
       THEN \E ms \in DetectAuto(config) :
               /\ modules' = ms
               /\ ret' = [op |-> "detect", arg |-> None, cached |-> FALSE, val |-> ms,
                         raised |-> FALSE]
       ELSE /\ modules' = modules
            /\ ret' = [op |-> "detect", arg |-> None, cached |-> FALSE,
                       val |-> "ValueError", raised |-> TRUE]
    /\ UNCHANGED <<auxVars, extVars, config, cache, pipeVars>>

\* ModuleDetector.get_module_for_file
GetModuleForFile(file_path) ==
    /\ calls < MaxCalls
    /\ calls' = calls + 1
    /\ ret' = [op |-> "get", arg |-> file_path, cached |-> file_path \in DOMAIN cache,
               val |-> GetModuleValue(modules, cache, file_path), raised |-> FALSE]
    /\ cache' = GetModuleCache(modules, cache, file_path)
    /\ UNCHANGED <<auxVars, extVars, config, modules, pipeVars>>

\* The owner of the configuration dict changes module_detection.method
\* (the detector holds the same dict object).
SetMethod(m) ==
    /\ calls < MaxCalls
    /\ m # config.method
    /\ calls' = calls + 1
    /\ config' = [config EXCEPT !.method = m]
    /\ UNCHANGED <<auxVars, extVars, modules, cache, ret, pipeVars>>

NoRet == [op |-> "none", arg |-> None, cached |-> FALSE, val |-> None, raised |-> FALSE]

PipeIdle ==
    /\ pc = "idle"
    /\ fsys = <<>>
    /\ all_files = <<>>
    /\ idx = 0
    /\ scanner = [files_scanned |-> 0, files_skipped |-> 0]
    /\ log = <<>>
    /\ results = None

InitDet ==
    /\ config \in Configs
    /\ modules = <<>>
    /\ cache = EmptyCache
    /\ ret = NoRet
    /\ calls = 0
    /\ PipeIdle
    /\ ExtIdle

NextDet ==
    \/ DetectModules
    \/ \E p \in FilePaths : GetModuleForFile(p)
    \/ \E m \in Methods : SetMethod(m)

SpecDet == InitDet /\ [][NextDet]_vars

(***************************************************************************)
(* FileScanner (utils/file_utils.py) and CodebaseAnalyzer (analyzer.py)    *)
(***************************************************************************)
\* A .py file of the tree: its path, whether read_file_safely gets its
\* content, whether TestAnalyzer.is_test_file holds, whether the scanner's
\* own test-file heuristics hold, whether an exclude pattern matches it.
File(path, readable, is_test, scan_test, excluded) ==
    [path |-> path, readable |-> readable, is_test |-> is_test,
     scan_test |-> scan_test, excluded |-> excluded]

FileKinds ==
    { File(FilePath(FALSE, r), rd, k[1], k[2], k[3]) :
        r \in {P_a_x, P_x}, rd \in BOOLEAN,
        k \in { <<FALSE, FALSE, FALSE>>, <<FALSE, FALSE, TRUE>>,
                <<TRUE, TRUE, TRUE>>, <<TRUE, FALSE, FALSE>> } }

MaxFiles == 2

\* The trees of the model: the files in the order rglob yields them.
FileSystems == UNION { [1..n -> FileKinds] : n \in 0..MaxFiles }

PipeConfigs ==
    { Config("manual", 1, <<M_a, M_ab>>, <<>>),
      Config("auto", 1, <<>>, <<>>),
      Config("bogus", 1, <<>>, <<>>) }

\* FileScanner._should_include (max_depth None, the file inside the root)
ShouldInclude(f) == f.scan_test \/ ~f.excluded

\* FileScanner.scan_python_files, consumed whole by list(): the files yielded
RECURSIVE ScanYield(_)
ScanYield(fs) ==
    IF fs = <<>> THEN <<>>
    ELSE (IF ShouldInclude(Head(fs)) THEN <<Head(fs)>> ELSE <<>>)
           \o ScanYield(Tail(fs))

ScanCounters(fs) ==
    [files_scanned |-> Len(ScanYield(fs)),
     files_skipped |-> Len(fs) - Len(ScanYield(fs))]

\* The per-file analyzers: the content entry points _analyze_file calls, in
\* the order it calls them
FanOut(is_test) ==
    (IF is_test
     THEN << "test_analyzer" >>
     ELSE << "db_coupling", "testability", "track_production" >>)
    \o << "complexity", "maintainability", "code_size", "class_metrics",
          "code_smells", "module_coupling" >>

\* The entry points that exist: DatabaseCouplingAnalyzer and ComplexityAnalyzer
\* define analyze_file only, so the call of their analyze_file_content raises
\* AttributeError.
ContentEntryPoints ==
    { "test_analyzer", "testability", "track_production", "maintainability",
      "code_size", "class_metrics", "code_smells", "module_coupling" }

\* The calls of a fan-out that return before the first one that raises
RECURSIVE Delivered(_)
Delivered(callees) ==
    IF callees = <<>> \/ Head(callees) \notin ContentEntryPoints THEN <<>>
    ELSE <<Head(callees)>> \o Delivered(Tail(callees))

Finalizers ==
    << "db_coupling", "complexity", "maintainability", "code_size", "tests",
       "module_coupling", "class_metrics", "code_smells" >>

Event(ev, file, who) == [ev |-> ev, file |-> file, who |-> who]

HandEvents(i, who) == [k \in 1..Len(who) |-> Event("hand", i, who[k])]

\* analyze(), step 1: a fresh scanner, detect_modules, the coupling analyzer
AnalyzeStart ==
    /\ pc = "start"
    /\ IF config.method \in {"manual", "auto"}
       THEN /\ \E ms \in (IF config.method = "manual" THEN DetectManual(config)
                                                       ELSE DetectAuto(config)) :
                   modules' = ms
            /\ log' = log \o << Event("detect_done", 0, None) >>
            /\ pc' = "scan"
       ELSE /\ modules' = modules
            /\ log' = log
            /\ pc' = "config_error"
    /\ scanner' = [files_scanned |-> 0, files_skipped |-> 0]
    /\ UNCHANGED <<auxVars, extVars, config, cache, ret, calls, fsys, all_files, idx, results>>

\* analyze(), step 2: all_files = list(self.scanner.scan_python_files())
ScanFiles ==
    /\ pc = "scan"
    /\ all_files' = ScanYield(fsys)
    /\ scanner' = ScanCounters(fsys)
    /\ idx' = 0
    /\ pc' = "files"
    /\ UNCHANGED <<auxVars, extVars, detVars, fsys, log, results>>

\* analyze(), step 3, one iteration: get_module_for_file and _analyze_file
AnalyzeFile ==
    /\ pc = "files"
    /\ idx < Len(all_files)
    /\ LET i == idx + 1
           f == all_files[i]
           callees == FanOut(f.is_test)
           got == Delivered(callees)
       IN  /\ cache' = GetModuleCache(modules, cache, f.path)
           /\ log' = log
                \o << Event("module", i, GetModuleValue(modules, cache, f.path)) >>
                \o << Event("read", i, IF f.readable THEN "content" ELSE None) >>
                \o (IF f.readable THEN HandEvents(i, got) ELSE <<>>)
           /\ IF f.readable /\ Len(got) < Len(callees)
              THEN pc' = "aborted" /\ idx' = idx
              ELSE pc' = pc /\ idx' = i
    /\ UNCHANGED <<auxVars, extVars, config, modules, ret, calls, fsys, all_files, scanner, results>>

\* analyze(), step 4: _finalize_analyzers
FinalizeAnalyzers ==
    /\ pc = "files"
    /\ idx = Len(all_files)
    /\ log' = log \o [k \in 1..Len(Finalizers) |-> Event("finalize", 0, Finalizers[k])]
    /\ pc' = "debt"
    /\ UNCHANGED <<auxVars, extVars, detVars, fsys, all_files, idx, scanner, results>>

\* analyze(), step 5, first half: self.tech_debt.calculate
CalculateDebt ==
    /\ pc = "debt"
    /\ log' = log \o << Event("debt_start", 0, None), Event("debt_done", 0, None) >>
    /\ pc' = "health"
    /\ UNCHANGED <<auxVars, extVars, detVars, fsys, all_files, idx, scanner, results>>

\* analyze(), step 5, second half: self.module_health.calculate
CalculateHealth ==
    /\ pc = "health"
    /\ log' = log \o << Event("health_start", 0, None), Event("health_done", 0, None) >>
    /\ pc' = "build"
    /\ UNCHANGED <<auxVars, extVars, detVars, fsys, all_files, idx, scanner, results>>

ResultKeys ==
    { "db_coupling", "complexity", "maintainability", "code_size", "tests",
      "module_coupling", "class_metrics", "code_smells", "technical_debt",
      "module_health" }

\* analyze(), step 6: _build_results
BuildResults ==
    /\ pc = "build"
    /\ results' =
         [metadata |-> [total_files_analyzed |-> scanner.files_scanned,
                        total_files_skipped |-> scanner.files_skipped,
                        module_count |-> Len(modules)],
          keys |-> ResultKeys]
    /\ log' = log \o << Event("build", 0, None) >>
    /\ pc' = "done"
    /\ UNCHANGED <<auxVars, extVars, detVars, fsys, all_files, idx, scanner>>

Init ==
    /\ config \in PipeConfigs
    /\ modules = <<>>
    /\ cache = EmptyCache
    /\ ret = NoRet
    /\ calls = 0
    /\ pc = "start"
    /\ fsys \in FileSystems
    /\ all_files = <<>>
    /\ idx = 0
    /\ scanner = [files_scanned |-> 0, files_skipped |-> 0]
    /\ log = <<>>
    /\ results = None
    /\ ExtIdle

Next ==
    \/ AnalyzeStart
    \/ ScanFiles
    \/ AnalyzeFile
    \/ FinalizeAnalyzers
    \/ CalculateDebt
    \/ CalculateHealth
    \/ BuildResults

Spec == Init /\ [][Next]_vars

(***************************************************************************)
(* Properties of the analyze() pipeline                                    *)
(***************************************************************************)
EventIdx(ev) == { k \in 1..Len(log) : log[k].ev = ev }

PerFileResultKeys ==
    { "complexity", "maintainability", "code_size", "tests", "code_smells",
      "class_metrics", "technical_debt", "module_health" }

\* C1: analyze(), over any set of scanned files, is never aborted by the
\* analysis of one file, and the result it returns holds the finalized results
\* of every analyzer.
C1_FileNeverAbortsRun ==
    /\ pc # "aborted"
    /\ pc = "done" => PerFileResultKeys \subseteq results.keys

\* C2: the stages of analyze() happen in order: detection before the first
\* module assignment; each file read once and handed to every applicable
\* analyzer before the run moves on; all finalizers before the debt
\* calculation; debt before health; the result built last.
C2_StageOrder ==
    /\ \A k \in EventIdx("module") : \E j \in EventIdx("detect_done") : j < k
    /\ \A k \in EventIdx("read") :
          LET i == log[k].file
              later == { j \in 1..Len(log) : log[j].file > i \/ log[j].ev = "finalize" }
          IN  /\ Cardinality({ j \in EventIdx("read") : log[j].file = i }) = 1
              /\ log[k].who = "content" =>
                    \A c \in 1..Len(FanOut(all_files[i].is_test)) :
                       \E j \in EventIdx("hand") :
                          /\ log[j].file = i
                          /\ log[j].who = FanOut(all_files[i].is_test)[c]
                          /\ k < j
                          /\ \A l \in later : j < l
    /\ \A k \in EventIdx("debt_start") :
          \A c \in 1..Len(Finalizers) :
             \E j \in EventIdx("finalize") : log[j].who = Finalizers[c] /\ j < k
    /\ \A k \in EventIdx("health_start") : \E j \in EventIdx("debt_done") : j < k
    /\ \A k \in EventIdx("build") : k = Len(log)

\* C6: metadata.total_files_analyzed is the number of files that were read
\* and analyzed; a file whose content could not be read is not counted in it.
C6_AnalyzedCountsReadFiles ==
    pc = "done" =>
        results.metadata.total_files_analyzed =
            Cardinality({ k \in EventIdx("read") : log[k].who = "content" })

(***************************************************************************)
(* Properties of the module detector                                       *)
(***************************************************************************)
\* The name of the module whose path is the longest prefix of the file's
\* root-relative path; "root" when there is none or the file is outside.
LongestPrefixName(mods, file_path) ==
    LET cands == { i \in 1..Len(mods) : StartsWith(file_path.rel, mods[i].path) }
    IN  IF file_path.outside \/ cands = {} THEN ROOT
        ELSE mods[CHOOSE i \in cands :
                    \A j \in cands : Len(mods[j].path) <= Len(mods[i].path)].name

\* C7: get_module_for_file returns the name of the module with the longest
\* path that is a prefix of the file's path, whatever the order of the module
\* list, and "root" when no path matches or the file lies outside the root.
C7_LongestPrefixWins ==
    (ret.op = "get" /\ ~ret.cached) =>
        ret.val = LongestPrefixName(modules, ret.arg)

\* C8: memoization is transparent: whatever detect_modules and
\* get_module_for_file calls came before, get_module_for_file(p) returns what
\* an un-memoized lookup of p in the current module list returns.
C8_MemoTransparent ==
    ret.op = "get" => ret.val = Lookup(modules, ret.arg)

(***************************************************************************)
(* The per-file analyzers.  What radon, the AST parser and the regexes     *)
(* extract from a file's content is given with the file; the analyzers'    *)
(* bookkeeping on those facts is modelled as the code does it.             *)
(***************************************************************************)
RECURSIVE Sum(_)
Sum(s) == IF s = <<>> THEN 0 ELSE Head(s) + Sum(Tail(s))

SetMax(S) == CHOOSE x \in S : \A y \in S : y <= x

\* list.sort is stable: elements that compare equal keep their list order
StableSort(s, Before(_, _)) ==
    LET pos(i) == 1 + Cardinality({ j \in 1..Len(s) :
                        \/ Before(s[j], s[i])
                        \/ (~Before(s[i], s[j]) /\ j < i) })
    IN  [p \in 1..Len(s) |-> s[CHOOSE i \in 1..Len(s) : pos(i) = p]]

\* list.sort(key=..., reverse=True)
SortReverse(s, Key(_)) == StableSort(s, LAMBDA a, b : Key(a) > Key(b))

\* list.sort(key=...)
SortAscending(s, Key(_)) == StableSort(s, LAMBDA a, b : Key(a) < Key(b))

\* defaultdict: d[k] of a missing key is the default
DictGet(d, k, default) == IF k \in DOMAIN d THEN d[k] ELSE default
DictSet(d, k, v) == [x \in DOMAIN d \cup {k} |-> IF x = k THEN v ELSE d[x]]
EmptyDict == <<>>

\* int / int as an exact rational
Ratio(n, d) == <<n, d>>
Zero == Ratio(0, 1)
RatioLess(a, b) == a[1] * b[2] < b[1] * a[2]

(***************************************************************************)
(* ComplexityAnalyzer                                                      *)
(***************************************************************************)
ComplexityThreshold == 10

ComplexityModuleDefault ==
    [total_functions |-> 0, avg_complexity |-> Zero, max_complexity |-> 0,
     high_complexity_count |-> 0, complexity_sum |-> 0]

ComplexityResults ==
    [total_functions |-> 0, avg_complexity |-> Zero, max_complexity |-> 0,
     max_complexity_function |-> None,
     distribution |-> [simple_1_5 |-> 0, moderate_6_10 |-> 0,
                       complex_11_20 |-> 0, very_complex_21_plus |-> 0],
     by_module |-> EmptyDict,
     high_complexity_functions |-> <<>>,
     per_file |-> <<>>]

\* _categorize_complexity with the bounds taken as exclusive
CategorizeComplexity_Exclusive(complexity) ==
    IF complexity < 5 THEN "simple"
    ELSE IF complexity < 10 THEN "moderate"
    ELSE IF complexity < 20 THEN "complex"
    ELSE "very_complex"

\* ComplexityAnalyzer._categorize_complexity
CategorizeComplexity(complexity) ==
    IF complexity <= 5 THEN "simple"
    ELSE IF complexity <= 10 THEN "moderate"
    ELSE IF complexity <= 20 THEN "complex"
    ELSE "very_complex"

\* _process_complexity_blocks: the per-file summary ...
ProcessComplexityBlocks(blocks, file_path, module_name) ==
    LET cs  == [i \in 1..Len(blocks) |-> blocks[i].complexity]
        mx  == SetMax({0} \cup { cs[i] : i \in 1..Len(cs) })
        \* "if complexity > max_complexity": the first block with the maximum
        fst == CHOOSE i \in 1..Len(cs) :
                   cs[i] = mx /\ \A j \in 1..(i - 1) : cs[j] < mx
    IN  [file |-> file_path, module |-> module_name,
         function_count |-> Len(blocks),
         avg_complexity |-> IF Len(blocks) > 0 THEN Ratio(Sum(cs), Len(blocks)) ELSE Zero,
         max_complexity |-> mx,
         max_complexity_function |-> IF mx > 0 THEN blocks[fst].name ELSE None,
         functions |-> [i \in 1..Len(blocks) |->
                           [name |-> blocks[i].name, complexity |-> cs[i],
                            category |-> CategorizeComplexity(cs[i])]]]

\* ... and the high-complexity functions it appends on the way
HighComplexityOf(blocks, file_path, module_name) ==
    SelectSeq([i \in 1..Len(blocks) |->
                  [function |-> blocks[i].name, module |-> module_name,
                   file |-> file_path, complexity |-> blocks[i].complexity,
                   category |-> CategorizeComplexity(blocks[i].complexity)]],
              LAMBDA h : h.complexity > ComplexityThreshold)

CountCategory(functions, category) ==
    Cardinality({ i \in 1..Len(functions) : functions[i].category = category })

ComplexityMaxFunction(r, file_results, module_name) ==
    IF file_results.max_complexity > r.max_complexity
    THEN [name |-> file_results.max_complexity_function,
          file |-> file_results.file, module |-> module_name,
          complexity |-> file_results.max_complexity]
    ELSE r.max_complexity_function

\* A faulty variant of ComplexityMax (the last file's maximum is kept); C4
\* must tell it from the code's.
ComplexityMax_LastFile(r, file_results) ==
    file_results.max_complexity

ComplexityMax(r, file_results) ==
    IF file_results.max_complexity > r.max_complexity
    THEN file_results.max_complexity
    ELSE r.max_complexity

\* A faulty variant of ComplexityModuleStats (a module counts files, not
\* functions); C3 must tell it from the code's.
ComplexityModuleStats_CountsFiles(module_stats, file_results) ==
    [module_stats EXCEPT !.total_functions = @ + 1]

ComplexityModuleStats(module_stats, file_results) ==
    LET fs == file_results.functions IN
    [module_stats EXCEPT
        !.total_functions = @ + file_results.function_count,
        !.complexity_sum = @ + Sum([i \in 1..Len(fs) |-> fs[i].complexity]),
        !.max_complexity = IF file_results.max_complexity > @
                           THEN file_results.max_complexity ELSE @,
        !.high_complexity_count =
            @ + Cardinality({ i \in 1..Len(fs) : fs[i].complexity > ComplexityThreshold })]

\* ComplexityAnalyzer._update_results
ComplexityUpdateResults(r, file_results, module_name) ==
    IF file_results.functions = <<>> THEN r
    ELSE [r EXCEPT
        !.total_functions = @ + file_results.function_count,
        !.max_complexity = ComplexityMax(r, file_results),
        !.max_complexity_function = ComplexityMaxFunction(r, file_results, module_name),
        !.distribution =
            [simple_1_5 |-> @.simple_1_5 + CountCategory(file_results.functions, "simple"),
             moderate_6_10 |-> @.moderate_6_10 + CountCategory(file_results.functions, "moderate"),
             complex_11_20 |-> @.complex_11_20 + CountCategory(file_results.functions, "complex"),
             very_complex_21_plus |->
                 @.very_complex_21_plus + CountCategory(file_results.functions, "very_complex")],
        !.by_module = DictSet(@, module_name,
            ComplexityModuleStats(DictGet(@, module_name, ComplexityModuleDefault),
                                  file_results)),
        !.per_file = Append(@,
            [file |-> file_results.file, module |-> module_name,
             avg_complexity |-> file_results.avg_complexity,
             max_complexity |-> file_results.max_complexity,
             function_count |-> file_results.function_count])]

\* ComplexityAnalyzer.analyze_file; f.blocks is what cc_visit returns
ComplexityAnalyzeFile(r, f) ==
    IF ~f.readable THEN r
    ELSE IF f.blocks = <<>> THEN r
    ELSE ComplexityUpdateResults(
            [r EXCEPT !.high_complexity_functions =
                 @ \o HighComplexityOf(f.blocks, f.file, f.module)],
            ProcessComplexityBlocks(f.blocks, f.file, f.module), f.module)

\* ComplexityAnalyzer.finalize_results
ComplexityFinalize(r) ==
    LET ms == DOMAIN r.by_module
        total_complexity ==
            IF ms = {} THEN 0
            ELSE LET RECURSIVE Add(_)
                     Add(S) == IF S = {} THEN 0
                               ELSE LET m == CHOOSE m \in S : TRUE
                                    IN  r.by_module[m].complexity_sum + Add(S \ {m})
                 IN  Add(ms)
    IN  [r EXCEPT
        !.avg_complexity = IF r.total_functions > 0
                           THEN Ratio(total_complexity, r.total_functions) ELSE @,
        !.by_module = [m \in ms |->
            [total_functions |-> r.by_module[m].total_functions,
             avg_complexity |-> IF r.by_module[m].total_functions > 0
                                THEN Ratio(r.by_module[m].complexity_sum,
                                           r.by_module[m].total_functions)
                                ELSE r.by_module[m].avg_complexity,
             max_complexity |-> r.by_module[m].max_complexity,
             high_complexity_count |-> r.by_module[m].high_complexity_count]],
        !.high_complexity_functions = SortReverse(@, LAMBDA h : h.complexity)]

(***************************************************************************)
(* DatabaseCouplingAnalyzer                                                *)
(***************************************************************************)
\* config: service_name and table_ownership
ServiceName == "svc"
\* "audit" is listed for the service and as shared
TableOwnership == [svc |-> {"users", "audit"}, shared |-> {"logs", "audit"}]

\* _get_ownership looking at the shared tables first
GetOwnership_SharedFirst(collection) ==
    IF collection \in TableOwnership["shared"] THEN "shared"
    ELSE IF collection \in TableOwnership[ServiceName] THEN "own"
    ELSE "other"

\* DatabaseCouplingAnalyzer._get_ownership
GetOwnership(collection) ==
    IF collection \in TableOwnership[ServiceName] THEN "own"
    ELSE IF collection \in TableOwnership["shared"] THEN "shared"
    ELSE "other"

TopCoupledFiles == 20

DbModuleDefault ==
    [total_operations |-> 0, severity_score |-> 0, violations_write |-> 0,
     violations_read |-> 0, own_operations |-> 0, other_operations |-> 0,
     mixed_logic_count |-> 0]

DbCouplingResults ==
    [total_operations |-> 0, total_files |-> 0, total_files_with_db |-> 0,
     severity_score |-> 0, collections_accessed |-> EmptyDict,
     mixed_logic_files |-> <<>>, by_module |-> EmptyDict,
     top_coupled_files |-> <<>>, violations |-> <<>>]

CountOps(operations, P(_)) ==
    Cardinality({ i \in 1..Len(operations) : P(operations[i]) })

\* DatabaseCouplingAnalyzer._categorize_operations
CategorizeOperations(operations, module_name) ==
    LET other_reads  == CountOps(operations, LAMBDA op :
                            GetOwnership(op.collection) = "other" /\ op.type = "read")
        other_writes == CountOps(operations, LAMBDA op :
                            GetOwnership(op.collection) = "other" /\ op.type # "read")
        collections  == { operations[i].collection : i \in 1..Len(operations) }
    IN  [total_operations |-> Len(operations),
         reads  |-> CountOps(operations, LAMBDA op : op.type = "read"),
         writes |-> CountOps(operations, LAMBDA op : op.type # "read"),
         collections |-> collections,
         own_operations |-> CountOps(operations, LAMBDA op :
                                GetOwnership(op.collection) = "own"),
         shared_operations |-> CountOps(operations, LAMBDA op :
                                GetOwnership(op.collection) = "shared"),
         other_reads |-> other_reads,
         other_writes |-> other_writes,
         operations_by_collection |-> [c \in collections |->
             [reads  |-> CountOps(operations, LAMBDA op :
                             op.collection = c /\ op.type = "read"),
              writes |-> CountOps(operations, LAMBDA op :
                             op.collection = c /\ op.type # "read")]],
         violations |-> SelectSeq(
             [i \in 1..Len(operations) |->
                 [type |-> IF operations[i].type = "read" THEN "read" ELSE "write",
                  severity |-> IF operations[i].type = "read" THEN "warning" ELSE "critical",
                  collection |-> operations[i].collection]],
             LAMBDA v : GetOwnership(v.collection) = "other"),
         severity_score |-> other_reads * 1 + other_writes * 5]

DbCollectionDefault(collection) ==
    [reads |-> 0, writes |-> 0, ownership |-> GetOwnership(collection),
     accessed_by_modules |-> {}]

DbModuleStats(module_stats, file_results) ==
    [module_stats EXCEPT
        !.total_operations = @ + file_results.total_operations,
        !.severity_score = @ + file_results.severity_score,
        !.violations_write = @ + file_results.other_writes,
        !.violations_read = @ + file_results.other_reads,
        !.own_operations = @ + file_results.own_operations,
        !.other_operations = @ + file_results.other_reads + file_results.other_writes]

\* DatabaseCouplingAnalyzer._update_results
DbUpdateResults(r, file_results, module_name) ==
    [r EXCEPT
        !.total_operations = @ + file_results.total_operations,
        !.severity_score = @ + file_results.severity_score,
        !.by_module = DictSet(@, module_name,
            DbModuleStats(DictGet(@, module_name, DbModuleDefault), file_results)),
        !.collections_accessed =
            [c \in DOMAIN @ \cup file_results.collections |->
                IF c \in file_results.collections
                THEN LET coll_stats == DictGet(@, c, DbCollectionDefault(c))
                         coll_ops   == file_results.operations_by_collection[c]
                     IN  [coll_stats EXCEPT
                            !.reads = @ + coll_ops.reads,
                            !.writes = @ + coll_ops.writes,
                            !.accessed_by_modules = @ \cup {module_name}]
                ELSE @[c]],
        !.top_coupled_files = Append(@,
            [file |-> file_results.file, module |-> module_name,
             total_operations |-> file_results.total_operations,
             reads |-> file_results.reads, writes |-> file_results.writes,
             collections |-> file_results.collections,
             severity_score |-> file_results.severity_score,
             violations |-> Len(file_results.violations)]),
        !.violations = @ \o [i \in 1..Len(file_results.violations) |->
             [type |-> file_results.violations[i].type,
              severity |-> file_results.violations[i].severity,
              collection |-> file_results.violations[i].collection,
              file |-> file_results.file, module |-> module_name]]]

\* DatabaseCouplingAnalyzer.analyze_file; f.operations is what
\* _extract_operations finds, f.mixed_logic what _detect_mixed_logic says
DbAnalyzeFile(r, f) ==
    IF ~f.readable THEN r
    ELSE IF f.operations = <<>> THEN r
    ELSE LET file_results ==
                 [file |-> f.file, module |-> f.module,
                  has_mixed_logic |-> f.mixed_logic]
                 @@ CategorizeOperations(f.operations, f.module)
             counted == [r EXCEPT !.total_files_with_db = @ + 1]
             mixed ==
                 IF f.mixed_logic
                 THEN [counted EXCEPT
                         !.mixed_logic_files = Append(@,
                             [file |-> f.file, module |-> f.module,
                              operations_count |-> Len(f.operations)]),
                         !.by_module = DictSet(@, f.module,
                             [DictGet(@, f.module, DbModuleDefault) EXCEPT
                                 !.mixed_logic_count = @ + 1])]
                 ELSE counted
         IN  DbUpdateResults(mixed, file_results, f.module)

\* finalize_results cutting the list to 20 before sorting it
DbFinalize_TruncateFirst(r) ==
    LET kept == SubSeq(r.top_coupled_files, 1,
                       IF Len(r.top_coupled_files) < TopCoupledFiles
                       THEN Len(r.top_coupled_files) ELSE TopCoupledFiles)
    IN  [r EXCEPT !.top_coupled_files = SortReverse(kept, LAMBDA t : t.severity_score)]

\* DatabaseCouplingAnalyzer.finalize_results
DbFinalize(r) ==
    LET sorted == SortReverse(r.top_coupled_files, LAMBDA t : t.severity_score)
    IN  [r EXCEPT !.top_coupled_files =
            SubSeq(sorted, 1, IF Len(sorted) < TopCoupledFiles
                              THEN Len(sorted) ELSE TopCoupledFiles)]

(***************************************************************************)
(* CodeSizeAnalyzer                                                        *)
(***************************************************************************)
FileSizeThreshold == 500
FunctionSizeThreshold == 50
CommentRatioThreshold == 5

CodeSizeModuleDefault ==
    [total_sloc |-> 0, file_count |-> 0, avg_file_size |-> Zero,
     comment_ratio |-> Zero, total_comments |-> 0, total_loc |-> 0]

CodeSizeResults ==
    [total_sloc |-> 0, total_comments |-> 0, total_blank |-> 0, total_loc |-> 0,
     comment_ratio |-> Zero, file_count |-> 0,
     file_size_distribution |-> [small_0_100 |-> 0, medium_101_500 |-> 0,
                                 large_501_plus |-> 0],
     by_module |-> EmptyDict, large_files |-> <<>>, large_functions |-> <<>>,
     low_documentation |-> <<>>, per_file |-> <<>>]

\* CodeSizeAnalyzer._analyze_function_sizes
LargeFunctionsOf(f) ==
    SelectSeq([i \in 1..Len(f.functions) |->
                  [function |-> f.functions[i].name, module |-> f.module,
                   file |-> f.file, sloc |-> f.functions[i].lines]],
              LAMBDA g : g.sloc > FunctionSizeThreshold)

\* CodeSizeAnalyzer._update_results
CodeSizeUpdateResults(r, file_results, module_name) ==
    LET sloc == file_results.sloc
        \* comment_ratio < threshold, the ratio being comments / loc * 100
        low_doc == file_results.comments * 100 < CommentRatioThreshold * file_results.loc
                   \/ file_results.loc = 0
        d == r.file_size_distribution
        module_stats == DictGet(r.by_module, module_name, CodeSizeModuleDefault)
    IN  [r EXCEPT
        !.total_sloc = @ + sloc,
        !.total_comments = @ + file_results.comments,
        !.total_blank = @ + file_results.blank,
        !.total_loc = @ + file_results.loc,
        !.file_count = @ + 1,
        !.file_size_distribution =
            IF sloc <= 100 THEN [d EXCEPT !.small_0_100 = @ + 1]
            ELSE IF sloc <= 500 THEN [d EXCEPT !.medium_101_500 = @ + 1]
            ELSE [d EXCEPT !.large_501_plus = @ + 1],
        !.large_files = IF sloc > FileSizeThreshold
                        THEN Append(@, [file |-> file_results.file,
                                        module |-> module_name, sloc |-> sloc,
                                        comments |-> file_results.comments,
                                        comment_ratio |-> file_results.comment_ratio])
                        ELSE @,
        !.low_documentation = IF low_doc /\ sloc > 50
                              THEN Append(@, [file |-> file_results.file,
                                              module |-> module_name,
                                              comment_ratio |-> file_results.comment_ratio,
                                              sloc |-> sloc])
                              ELSE @,
        !.by_module = DictSet(@, module_name,
            [module_stats EXCEPT
                !.total_sloc = @ + sloc,
                !.file_count = @ + 1,
                !.total_comments = @ + file_results.comments,
                !.total_loc = @ + file_results.loc]),
        !.per_file = Append(@, [file |-> file_results.file, module |-> module_name,
                                sloc |-> sloc,
                                comment_ratio |-> file_results.comment_ratio,
                                function_count |-> file_results.function_count,
                                class_count |-> file_results.class_count])]

\* CodeSizeAnalyzer.analyze_file; f.raw is what radon's analyze returns,
\* f.functions and f.classes what the AST parser finds
CodeSizeAnalyzeFile(r, f) ==
    IF ~f.readable THEN r
    ELSE IF ~f.parses THEN r
    ELSE CodeSizeUpdateResults(
            [r EXCEPT !.large_functions = @ \o LargeFunctionsOf(f)],
            [file |-> f.file, module |-> f.module, sloc |-> f.raw.sloc,
             comments |-> f.raw.comments, blank |-> f.raw.blank, loc |-> f.raw.loc,
             comment_ratio |-> IF f.raw.loc > 0
                               THEN Ratio(f.raw.comments * 100, f.raw.loc) ELSE Zero,
             function_count |-> Len(f.functions), class_count |-> Len(f.classes)],
            f.module)

\* CodeSizeAnalyzer.finalize_results
CodeSizeFinalize(r) ==
    [r EXCEPT
        !.comment_ratio = IF r.total_loc > 0
                          THEN Ratio(r.total_comments * 100, r.total_loc) ELSE @,
        !.by_module = [m \in DOMAIN @ |->
            [@[m] EXCEPT
                !.avg_file_size = IF r.by_module[m].file_count > 0
                                  THEN Ratio(r.by_module[m].total_sloc,
                                             r.by_module[m].file_count)
                                  ELSE @,
                !.comment_ratio = IF r.by_module[m].total_loc > 0
                                  THEN Ratio(r.by_module[m].total_comments * 100,
                                             r.by_module[m].total_loc)
                                  ELSE @]],
        !.large_files = SortReverse(@, LAMBDA x : x.sloc),
        !.large_functions = SortReverse(@, LAMBDA x : x.sloc),
        !.low_documentation =
            StableSort(@, LAMBDA a, b : RatioLess(a.comment_ratio, b.comment_ratio))]

(***************************************************************************)
(* MaintainabilityAnalyzer (the MI score is taken as a whole number)       *)
(***************************************************************************)
MaintainabilityThreshold == 20

MaintainabilityModuleDefault ==
    [avg_mi |-> Zero, file_count |-> 0, mi_sum |-> 0, low_mi_count |-> 0]

MaintainabilityResults ==
    [avg_mi |-> Zero, total_files |-> 0, mi_sum |-> 0,
     distribution |-> [high_65_100 |-> 0, moderate_20_64 |-> 0, low_0_19 |-> 0],
     by_module |-> EmptyDict, low_maintainability_files |-> <<>>]

CategorizeMi(mi_score) ==
    IF mi_score >= 65 THEN "high" ELSE IF mi_score >= 20 THEN "moderate" ELSE "low"

\* MaintainabilityAnalyzer._update_results
MaintainabilityUpdateResults(r, file_results, module_name) ==
    LET mi_score == file_results.mi_score
        d == r.distribution
        module_stats == DictGet(r.by_module, module_name, MaintainabilityModuleDefault)
    IN  [r EXCEPT
        !.total_files = @ + 1,
        !.mi_sum = @ + mi_score,
        !.distribution =
            IF file_results.category = "high" THEN [d EXCEPT !.high_65_100 = @ + 1]
            ELSE IF file_results.category = "moderate"
            THEN [d EXCEPT !.moderate_20_64 = @ + 1]
            ELSE [d EXCEPT !.low_0_19 = @ + 1],
        !.low_maintainability_files =
            IF mi_score < MaintainabilityThreshold
            THEN Append(@, [file |-> file_results.file, module |-> module_name,
                            mi_score |-> mi_score, category |-> file_results.category])
            ELSE @,
        !.by_module = DictSet(@, module_name,
            [module_stats EXCEPT
                !.file_count = @ + 1,
                !.mi_sum = @ + mi_score,
                !.low_mi_count = IF mi_score < MaintainabilityThreshold
                                 THEN @ + 1 ELSE @])]

\* MaintainabilityAnalyzer.analyze_file; f.mi is what mi_visit returns
\* (negative: no score)
MaintainabilityAnalyzeFile(r, f) ==
    IF ~f.readable THEN r
    ELSE IF ~f.parses THEN r
    ELSE IF f.mi < 0 THEN r
    ELSE MaintainabilityUpdateResults(r,
            [file |-> f.file, module |-> f.module, mi_score |-> f.mi,
             category |-> CategorizeMi(f.mi)], f.module)

\* finalize_results dividing the global sum by each module's file count
MaintainabilityFinalize_GlobalSum(r) ==
    [avg_mi |-> IF r.total_files > 0 THEN Ratio(r.mi_sum, r.total_files) ELSE r.avg_mi,
     total_files |-> r.total_files,
     distribution |-> r.distribution,
     by_module |-> [m \in DOMAIN r.by_module |->
        [avg_mi |-> IF r.by_module[m].file_count > 0
                    THEN Ratio(r.mi_sum, r.by_module[m].file_count)
                    ELSE r.by_module[m].avg_mi,
         file_count |-> r.by_module[m].file_count,
         low_mi_count |-> r.by_module[m].low_mi_count]],
     low_maintainability_files |->
        SortAscending(r.low_maintainability_files, LAMBDA x : x.mi_score)]

\* MaintainabilityAnalyzer.finalize_results
MaintainabilityFinalize(r) ==
    [avg_mi |-> IF r.total_files > 0 THEN Ratio(r.mi_sum, r.total_files) ELSE r.avg_mi,
     total_files |-> r.total_files,
     distribution |-> r.distribution,
     by_module |-> [m \in DOMAIN r.by_module |->
        [avg_mi |-> IF r.by_module[m].file_count > 0
                    THEN Ratio(r.by_module[m].mi_sum, r.by_module[m].file_count)
                    ELSE r.by_module[m].avg_mi,
         file_count |-> r.by_module[m].file_count,
         low_mi_count |-> r.by_module[m].low_mi_count]],
     low_maintainability_files |->
        SortAscending(r.low_maintainability_files, LAMBDA x : x.mi_score)]

(***************************************************************************)
(* ClassMetricsAnalyzer                                                    *)
(***************************************************************************)
ClassMethodsThreshold == 20
ClassWmcThreshold == 50
ClassLcomThreshold == 2

ClassModuleDefault ==
    [total_classes |-> 0, avg_lcom |-> Zero, avg_wmc |-> Zero,
     god_classes_count |-> 0, lcom_sum |-> 0, wmc_sum |-> 0]

ClassMetricsResults ==
    [total_classes |-> 0, avg_lcom |-> Zero, avg_wmc |-> Zero,
     avg_methods_per_class |-> Zero, lcom_sum |-> 0, wmc_sum |-> 0,
     methods_sum |-> 0, by_module |-> EmptyDict, per_class |-> <<>>,
     god_classes |-> <<>>, low_cohesion_classes |-> <<>>]

IsGodClass(c) ==
    \/ c.methods > ClassMethodsThreshold
    \/ c.wmc > ClassWmcThreshold
    \/ c.lcom > ClassLcomThreshold

\* _analyze_class: reasons, one per condition that holds, each with the
\* number it reports
GodClassReasons(c) ==
    (IF c.methods > ClassMethodsThreshold THEN << <<c.methods, "methods">> >> ELSE <<>>)
    \o (IF c.wmc > ClassWmcThreshold THEN << <<"WMC", c.wmc>> >> ELSE <<>>)
    \o (IF c.lcom > ClassLcomThreshold THEN << <<"LCOM", c.lcom>> >> ELSE <<>>)

\* ClassMetricsAnalyzer._analyze_class followed by _update_results, for one
\* class with at least one method
ClassUpdateResults(r, c, file_path, module_name) ==
    LET class_info == [class |-> c.class, module |-> module_name, file |-> file_path,
                       methods |-> c.methods, lcom |-> c.lcom, wmc |-> c.wmc]
        god_classes == IF IsGodClass(c)
                       THEN Append(r.god_classes,
                                [class |-> c.class, module |-> module_name,
                                 file |-> file_path, reasons |-> GodClassReasons(c),
                                 methods |-> c.methods,
                                 wmc |-> c.wmc, lcom |-> c.lcom])
                       ELSE r.god_classes
        module_stats == DictGet(r.by_module, module_name, ClassModuleDefault)
    IN  [r EXCEPT
        !.god_classes = god_classes,
        !.low_cohesion_classes =
            IF c.lcom > ClassLcomThreshold
            THEN Append(@, [class |-> c.class, module |-> module_name,
                            file |-> file_path, lcom |-> c.lcom, methods |-> c.methods])
            ELSE @,
        !.total_classes = @ + 1,
        !.lcom_sum = @ + c.lcom,
        !.wmc_sum = @ + c.wmc,
        !.methods_sum = @ + c.methods,
        !.by_module = DictSet(@, module_name,
            [module_stats EXCEPT
                !.total_classes = @ + 1,
                !.lcom_sum = @ + c.lcom,
                !.wmc_sum = @ + c.wmc,
                !.god_classes_count =
                    IF \E i \in 1..Len(god_classes) :
                          /\ god_classes[i].class = c.class
                          /\ god_classes[i].file = file_path
                    THEN @ + 1 ELSE @]),
        !.per_class = Append(@, class_info)]

RECURSIVE ClassAnalyzeClasses(_, _, _, _)
ClassAnalyzeClasses(r, classes, file_path, module_name) ==
    IF classes = <<>> THEN r
    ELSE ClassAnalyzeClasses(
            IF Head(classes).methods = 0 THEN r
            ELSE ClassUpdateResults(r, Head(classes), file_path, module_name),
            Tail(classes), file_path, module_name)

\* ClassMetricsAnalyzer.analyze_file; f.classes is what the AST parser finds,
\* with the LCOM and WMC computed for each class
ClassAnalyzeFile(r, f) ==
    IF ~f.readable THEN r
    ELSE IF ~f.parses THEN r
    ELSE ClassAnalyzeClasses(r, f.classes, f.file, f.module)

\* ClassMetricsAnalyzer.finalize_results
ClassFinalize(r) ==
    LET n == r.total_classes IN
    [total_classes |-> n,
     avg_lcom |-> IF n > 0 THEN Ratio(r.lcom_sum, n) ELSE r.avg_lcom,
     avg_wmc |-> IF n > 0 THEN Ratio(r.wmc_sum, n) ELSE r.avg_wmc,
     avg_methods_per_class |-> IF n > 0 THEN Ratio(r.methods_sum, n)
                               ELSE r.avg_methods_per_class,
     by_module |-> [m \in DOMAIN r.by_module |->
        LET module_stats == r.by_module[m] IN
        [total_classes |-> module_stats.total_classes,
         avg_lcom |-> IF module_stats.total_classes > 0
                      THEN Ratio(module_stats.lcom_sum, module_stats.total_classes)
                      ELSE module_stats.avg_lcom,
         avg_wmc |-> IF module_stats.total_classes > 0
                     THEN Ratio(module_stats.wmc_sum, module_stats.total_classes)
                     ELSE module_stats.avg_wmc,
         god_classes_count |-> module_stats.god_classes_count]],
     per_class |-> r.per_class,
     god_classes |-> SortReverse(r.god_classes, LAMBDA x : x.wmc),
     low_cohesion_classes |-> SortReverse(r.low_cohesion_classes, LAMBDA x : x.lcom)]

(***************************************************************************)
(* CodeSmellsAnalyzer                                                      *)
(***************************************************************************)
ParametersThreshold == 5
NestingThreshold == 4

SmellsModuleDefault ==
    [long_methods |-> 0, long_parameter_lists |-> 0, deep_nesting |-> 0,
     total_smells |-> 0]

CodeSmellsResults ==
    [total_smells |-> 0, by_module |-> EmptyDict, long_methods |-> <<>>,
     long_parameter_lists |-> <<>>, deep_nesting |-> <<>>, duplicate_code |-> <<>>]

\* CodeSmellsAnalyzer._track_smell
TrackSmell(r, smell_type, smell, module_name) ==
    LET module_stats == DictGet(r.by_module, module_name, SmellsModuleDefault)
        tracked == [r EXCEPT
            ![smell_type] = Append(@, [function |-> smell.function,
                                       value |-> smell.value,
                                       module |-> module_name]),
            !.total_smells = @ + 1]
    IN  [tracked EXCEPT !.by_module = DictSet(@, module_name,
            [module_stats EXCEPT ![smell_type] = @ + 1,
                                 !.total_smells = @ + 1])]

\* the three checks analyze_file_content makes on one function
SmellsOfFunction(r, fn, module_name) ==
    LET r1 == IF fn.lines > FunctionSizeThreshold
              THEN TrackSmell(r, "long_methods",
                       [function |-> fn.name, value |-> fn.lines], module_name)
              ELSE r
        r2 == IF fn.params > ParametersThreshold
              THEN TrackSmell(r1, "long_parameter_lists",
                       [function |-> fn.name, value |-> fn.params], module_name)
              ELSE r1
    IN  IF fn.depth > NestingThreshold
        THEN TrackSmell(r2, "deep_nesting",
                 [function |-> fn.name, value |-> fn.depth], module_name)
        ELSE r2

RECURSIVE SmellsOfFunctions(_, _, _)
SmellsOfFunctions(r, functions, module_name) ==
    IF functions = <<>> THEN r
    ELSE SmellsOfFunctions(SmellsOfFunction(r, Head(functions), module_name),
                           Tail(functions), module_name)

\* CodeSmellsAnalyzer.analyze_file
SmellsAnalyzeFile(r, f) ==
    IF ~f.readable THEN r
    ELSE IF ~f.parses THEN r
    ELSE SmellsOfFunctions(r, f.functions, f.module)

\* CodeSmellsAnalyzer.finalize_results
SmellsFinalize(r) ==
    [r EXCEPT
        !.long_methods = SortReverse(@, LAMBDA x : x.value),
        !.long_parameter_lists = SortReverse(@, LAMBDA x : x.value),
        !.deep_nesting = SortReverse(@, LAMBDA x : x.value)]

(***************************************************************************)
(* ModuleCouplingAnalyzer                                                  *)
(***************************************************************************)
FanOutThreshold == 10

\* mod_path.replace("/", ".")
Dotted(path) == [i \in 1..Len(path) |-> IF path[i] = "/" THEN "." ELSE path[i]]

\* ModuleCouplingAnalyzer.__init__: module_paths = {m.path: m.name}, a dict,
\* so a later module with the same path replaces the name and keeps the place
RECURSIVE ModulePaths(_)
ModulePaths(mods) ==
    IF mods = <<>> THEN <<>>
    ELSE LET rest == ModulePaths(SubSeq(mods, 1, Len(mods) - 1))
             last == mods[Len(mods)]
         IN  IF \E i \in 1..Len(rest) : rest[i].path = last.path
             THEN [i \in 1..Len(rest) |->
                      IF rest[i].path = last.path THEN last ELSE rest[i]]
             ELSE Append(rest, last)

\* ModuleCouplingAnalyzer._get_imported_module
RECURSIVE GetImportedModule(_, _)
GetImportedModule(module_paths, module_path) ==
    IF module_path = <<>> THEN <<>>
    ELSE IF module_paths = <<>> THEN <<>>
    ELSE IF StartsWith(module_path, Dotted(Head(module_paths).path))
         THEN <<Head(module_paths).name>>
         ELSE GetImportedModule(Tail(module_paths), module_path)

ModuleCouplingResults(mods) ==
    [modules |-> { mods[i].name : i \in 1..Len(mods) },
     module_paths |-> ModulePaths(mods),
     imports |-> EmptyDict, imported_by |-> EmptyDict,
     total_modules |-> Len(mods),
     avg_afferent_coupling |-> Zero, avg_efferent_coupling |-> Zero,
     per_module |-> EmptyDict, stable_modules |-> {}, unstable_modules |-> {},
     high_fanout_modules |-> {}, edges |-> {},
     \* how many entries each of the four lists holds
     entries |-> [stable_modules |-> 0, unstable_modules |-> 0,
                  high_fanout_modules |-> 0, edges |-> 0]]

\* one import statement of a file of module_name
CouplingTrack(r, module_path, module_name) ==
    LET imported == GetImportedModule(r.module_paths, module_path) IN
    IF imported # <<>> /\ imported[1] # module_name
    THEN [r EXCEPT
            !.imports = DictSet(@, module_name,
                            DictGet(@, module_name, {}) \cup {imported[1]}),
            !.imported_by = DictSet(@, imported[1],
                            DictGet(@, imported[1], {}) \cup {module_name})]
    ELSE r

RECURSIVE CouplingTrackAll(_, _, _)
CouplingTrackAll(r, imports, module_name) ==
    IF imports = <<>> THEN r
    ELSE CouplingTrackAll(CouplingTrack(r, Head(imports), module_name),
                          Tail(imports), module_name)

\* ModuleCouplingAnalyzer.analyze_file; f.imports is what get_imports returns
CouplingAnalyzeFile(r, f) ==
    IF ~f.readable THEN r
    ELSE CouplingTrackAll(r, f.imports, f.module)

\* finalize_results with the stable list built by the rule of the category
CouplingFinalize_ListsByCategory(r) ==
    LET ca(m) == Cardinality(DictGet(r.imported_by, m, {}))
        ce(m) == Cardinality(DictGet(r.imports, m, {}))
        instability(m) == IF ca(m) + ce(m) > 0 THEN Ratio(ce(m), ca(m) + ce(m)) ELSE Zero
        \* instability compared with 0.3 and 0.7
        tenths(m) == IF ca(m) + ce(m) > 0 THEN <<10 * ce(m), ca(m) + ce(m)>> ELSE <<0, 1>>
        n == Cardinality(r.modules)
        SumOver(F(_)) ==
            LET RECURSIVE Add(_)
                Add(S) == IF S = {} THEN 0
                          ELSE LET m == CHOOSE m \in S : TRUE IN F(m) + Add(S \ {m})
            IN  Add(r.modules)
    IN  [r EXCEPT
        !.per_module = [m \in r.modules |->
            [module |-> m, afferent_coupling |-> ca(m), efferent_coupling |-> ce(m),
             instability |-> instability(m),
             stability_category |->
                 IF tenths(m)[1] < 3 * tenths(m)[2] THEN "stable"
                 ELSE IF tenths(m)[1] > 7 * tenths(m)[2] THEN "unstable"
                 ELSE "moderate",
             imported_by |-> DictGet(r.imported_by, m, {}),
             imports |-> DictGet(r.imports, m, {})]],
        !.stable_modules = { m \in r.modules : tenths(m)[1] < 3 * tenths(m)[2] },
        !.unstable_modules = { m \in r.modules :
                                 /\ ~(tenths(m)[1] <= 3 * tenths(m)[2])
                                 /\ tenths(m)[1] >= 7 * tenths(m)[2] },
        !.high_fanout_modules = { m \in r.modules : ce(m) > FanOutThreshold },
        !.avg_afferent_coupling = IF n > 0 THEN Ratio(SumOver(ca), n) ELSE @,
        !.avg_efferent_coupling = IF n > 0 THEN Ratio(SumOver(ce), n) ELSE @,
        !.edges = UNION { { <<from, to>> : to \in r.imports[from] } :
                          from \in DOMAIN r.imports },
        !.entries = [stable_modules |-> @.stable_modules + Cardinality(
                         { m \in r.modules : tenths(m)[1] < 3 * tenths(m)[2] }),
                     unstable_modules |-> @.unstable_modules + Cardinality(
                         { m \in r.modules :
                             /\ ~(tenths(m)[1] <= 3 * tenths(m)[2])
                             /\ tenths(m)[1] >= 7 * tenths(m)[2] }),
                     high_fanout_modules |-> @.high_fanout_modules + Cardinality(
                         { m \in r.modules : ce(m) > FanOutThreshold }),
                     edges |-> @.edges + Cardinality(
                         UNION { { <<from, to>> : to \in r.imports[from] } :
                                 from \in DOMAIN r.imports })]]

\* ModuleCouplingAnalyzer.finalize_results (the per-module metrics and the
\* members of the lists it builds)
CouplingFinalize(r) ==
    LET ca(m) == Cardinality(DictGet(r.imported_by, m, {}))
        ce(m) == Cardinality(DictGet(r.imports, m, {}))
        instability(m) == IF ca(m) + ce(m) > 0 THEN Ratio(ce(m), ca(m) + ce(m)) ELSE Zero
        \* instability compared with 0.3 and 0.7
        tenths(m) == IF ca(m) + ce(m) > 0 THEN <<10 * ce(m), ca(m) + ce(m)>> ELSE <<0, 1>>
        n == Cardinality(r.modules)
        SumOver(F(_)) ==
            LET RECURSIVE Add(_)
                Add(S) == IF S = {} THEN 0
                          ELSE LET m == CHOOSE m \in S : TRUE IN F(m) + Add(S \ {m})
            IN  Add(r.modules)
    IN  [r EXCEPT
        !.per_module = [m \in r.modules |->
            [module |-> m, afferent_coupling |-> ca(m), efferent_coupling |-> ce(m),
             instability |-> instability(m),
             stability_category |->
                 IF tenths(m)[1] < 3 * tenths(m)[2] THEN "stable"
                 ELSE IF tenths(m)[1] > 7 * tenths(m)[2] THEN "unstable"
                 ELSE "moderate",
             imported_by |-> DictGet(r.imported_by, m, {}),
             imports |-> DictGet(r.imports, m, {})]],
        !.stable_modules = { m \in r.modules : tenths(m)[1] <= 3 * tenths(m)[2] },
        !.unstable_modules = { m \in r.modules :
                                 /\ ~(tenths(m)[1] <= 3 * tenths(m)[2])
                                 /\ tenths(m)[1] >= 7 * tenths(m)[2] },
        !.high_fanout_modules = { m \in r.modules : ce(m) > FanOutThreshold },
        !.avg_afferent_coupling = IF n > 0 THEN Ratio(SumOver(ca), n) ELSE @,
        !.avg_efferent_coupling = IF n > 0 THEN Ratio(SumOver(ce), n) ELSE @,
        !.edges = UNION { { <<from, to>> : to \in r.imports[from] } :
                          from \in DOMAIN r.imports },
        \* each list is appended to, never cleared
        !.entries = [stable_modules |-> @.stable_modules + Cardinality(
                         { m \in r.modules : tenths(m)[1] <= 3 * tenths(m)[2] }),
                     unstable_modules |-> @.unstable_modules + Cardinality(
                         { m \in r.modules :
                             /\ ~(tenths(m)[1] <= 3 * tenths(m)[2])
                             /\ tenths(m)[1] >= 7 * tenths(m)[2] }),
                     high_fanout_modules |-> @.high_fanout_modules + Cardinality(
                         { m \in r.modules : ce(m) > FanOutThreshold }),
                     edges |-> @.edges + Cardinality(
                         UNION { { <<from, to>> : to \in r.imports[from] } :
                                 from \in DOMAIN r.imports })]]

(***************************************************************************)
(* TestAnalyzer: test files and the production functions they cover        *)
(***************************************************************************)
TestsModuleDefault ==
    [test_files |-> 0, unit_tests |-> 0, integration_tests |-> 0,
     edge_case_tests |-> 0, happy_path_tests |-> 0, edge_case_percentage |-> Zero,
     testability_score |-> Zero, mixed_functions |-> 0, total_functions |-> 0,
     functions_with_tests |-> 0, function_coverage |-> Zero]

\* TestAnalyzer.results after __init__, with the two private dicts of
\* function names
TestsResults ==
    [total_test_files |-> 0, unit_test_files |-> 0, integration_test_files |-> 0,
     total_test_functions |-> 0, unit_test_functions |-> 0,
     integration_test_functions |-> 0,
     test_ratio |-> [unit_percentage |-> Zero, integration_percentage |-> Zero],
     edge_case_analysis |-> [total_edge_case_tests |-> 0, total_happy_path_tests |-> 0,
                             edge_case_percentage |-> Zero],
     by_module |-> EmptyDict,
     testability |-> [total_functions |-> 0, functions_with_db_access |-> 0,
                      functions_with_business_logic |-> 0, functions_mixing_both |-> 0,
                      testability_score |-> Zero],
     test_functions_by_module |-> EmptyDict,
     production_functions_by_module |-> EmptyDict]

\* f"test_{prod_func}"
TestName(prod_func) == <<"test_", prod_func>>

\* func_name.startswith("_"), for the function names of the file contents
PrivateNames == { "_h" }

\* TestAnalyzer._update_test_results
UpdateTestResults(r, file_results, module_name) ==
    LET test_count == file_results.test_count
        module_stats == DictGet(r.by_module, module_name, TestsModuleDefault)
    IN  [r EXCEPT
            !.total_test_files = @ + 1,
            !.total_test_functions = @ + test_count,
            !.integration_test_files =
                IF file_results.type = "integration" THEN @ + 1 ELSE @,
            !.integration_test_functions =
                IF file_results.type = "integration" THEN @ + test_count ELSE @,
            !.unit_test_files = IF file_results.type = "integration" THEN @ ELSE @ + 1,
            !.unit_test_functions =
                IF file_results.type = "integration" THEN @ ELSE @ + test_count,
            !.by_module = DictSet(@, module_name,
                [module_stats EXCEPT
                    !.test_files = @ + 1,
                    !.integration_tests =
                        IF file_results.type = "integration" THEN @ + test_count ELSE @,
                    !.unit_tests =
                        IF file_results.type = "integration" THEN @ ELSE @ + test_count])]

\* analyze_test_file keeping the module detected from the path of the test
\* file
AnalyzeTestFile_ByPathModule(r, f) ==
    IF ~f.readable THEN r
    ELSE LET inferred_module == f.module
             test_functions == IF f.parses THEN f.tests ELSE <<>>
             edge_case_count == Len(SelectSeq(test_functions, LAMBDA t : t.edge))
             happy_path_count == Len(test_functions) - edge_case_count
             module_stats == DictGet(r.by_module, inferred_module, TestsModuleDefault)
             counted ==
                 [r EXCEPT
                     !.test_functions_by_module =
                         IF test_functions = <<>> THEN @
                         ELSE DictSet(@, inferred_module,
                                  DictGet(@, inferred_module, {})
                                  \cup { test_functions[i].name :
                                           i \in 1..Len(test_functions) }),
                     !.by_module = DictSet(@, inferred_module,
                         [module_stats EXCEPT
                             !.edge_case_tests = @ + edge_case_count,
                             !.happy_path_tests = @ + happy_path_count]),
                     !.edge_case_analysis =
                         [@ EXCEPT
                             !.total_edge_case_tests = @ + edge_case_count,
                             !.total_happy_path_tests = @ + happy_path_count]]
         IN  UpdateTestResults(counted,
                 [file |-> f.file, module |-> inferred_module,
                  type |-> IF f.integration THEN "integration" ELSE "unit",
                  test_count |-> Len(test_functions)],
                 inferred_module)

\* TestAnalyzer.analyze_test_file; f.inferred_module is what
\* infer_test_module returns, f.tests the test_ functions the parser finds,
\* each with what _detect_edge_case_patterns says of it
AnalyzeTestFile(r, f) ==
    IF ~f.readable THEN r
    ELSE LET inferred_module == f.inferred_module
             test_functions == IF f.parses THEN f.tests ELSE <<>>
             edge_case_count == Len(SelectSeq(test_functions, LAMBDA t : t.edge))
             happy_path_count == Len(test_functions) - edge_case_count
             module_stats == DictGet(r.by_module, inferred_module, TestsModuleDefault)
             counted ==
                 [r EXCEPT
                     !.test_functions_by_module =
                         IF test_functions = <<>> THEN @
                         ELSE DictSet(@, inferred_module,
                                  DictGet(@, inferred_module, {})
                                  \cup { test_functions[i].name :
                                           i \in 1..Len(test_functions) }),
                     !.by_module = DictSet(@, inferred_module,
                         [module_stats EXCEPT
                             !.edge_case_tests = @ + edge_case_count,
                             !.happy_path_tests = @ + happy_path_count]),
                     !.edge_case_analysis =
                         [@ EXCEPT
                             !.total_edge_case_tests = @ + edge_case_count,
                             !.total_happy_path_tests = @ + happy_path_count]]
         IN  UpdateTestResults(counted,
                 [file |-> f.file, module |-> inferred_module,
                  type |-> IF f.integration THEN "integration" ELSE "unit",
                  test_count |-> Len(test_functions)],
                 inferred_module)

\* TestAnalyzer.track_production_functions
RECURSIVE TrackFunctions(_, _, _)
TrackFunctions(r, functions, module_name) ==
    IF functions = <<>> THEN r
    ELSE LET func_name == Head(functions).name
             module_stats == DictGet(r.by_module, module_name, TestsModuleDefault)
         IN  TrackFunctions(
                 IF func_name \in PrivateNames THEN r
                 ELSE [r EXCEPT
                         !.production_functions_by_module =
                             DictSet(@, module_name,
                                     DictGet(@, module_name, {}) \cup {func_name}),
                         !.by_module = DictSet(@, module_name,
                             [module_stats EXCEPT !.total_functions = @ + 1])],
                 Tail(functions), module_name)

TrackProductionFunctions(r, f) ==
    IF ~f.readable THEN r
    ELSE TrackFunctions(r, IF f.parses THEN f.functions ELSE <<>>, f.module)

\* what the test analyzer is handed of one file
TestsAnalyzeFile(r, f) ==
    IF f.is_test THEN AnalyzeTestFile(r, f) ELSE TrackProductionFunctions(r, f)

\* TestAnalyzer.finalize_results
TestsFinalize(r) ==
    LET total_tests == r.total_test_functions
        total_edge == r.edge_case_analysis.total_edge_case_tests
        total_all_tests == total_edge + r.edge_case_analysis.total_happy_path_tests
        total_with_logic == r.testability.functions_with_business_logic
    IN  [r EXCEPT
            !.test_ratio =
                IF total_tests > 0
                THEN [unit_percentage |-> Ratio(r.unit_test_functions * 100, total_tests),
                      integration_percentage |->
                          Ratio(r.integration_test_functions * 100, total_tests)]
                ELSE @,
            !.edge_case_analysis.edge_case_percentage =
                IF total_all_tests > 0 THEN Ratio(total_edge * 100, total_all_tests)
                ELSE Zero,
            !.testability.testability_score =
                IF total_with_logic > 0
                THEN Ratio((total_with_logic - r.testability.functions_mixing_both) * 100,
                           total_with_logic)
                ELSE Ratio(100, 1),
            !.by_module = [module_name \in DOMAIN @ |->
                LET module_stats == @[module_name]
                    total_module_tests ==
                        module_stats.unit_tests + module_stats.integration_tests
                    module_total ==
                        module_stats.edge_case_tests + module_stats.happy_path_tests
                    production_funcs ==
                        DictGet(r.production_functions_by_module, module_name, {})
                    test_funcs == DictGet(r.test_functions_by_module, module_name, {})
                    tested_funcs == { p \in production_funcs : TestName(p) \in test_funcs }
                IN  [module_stats EXCEPT
                        !.testability_score =
                            IF total_module_tests > 0
                            THEN Ratio(module_stats.unit_tests * 100, total_module_tests)
                            ELSE Zero,
                        !.edge_case_percentage =
                            IF module_total > 0
                            THEN Ratio(module_stats.edge_case_tests * 100, module_total)
                            ELSE Zero,
                        !.functions_with_tests =
                            IF production_funcs # {} THEN Cardinality(tested_funcs) ELSE @,
                        !.function_coverage =
                            IF production_funcs # {}
                            THEN Ratio(Cardinality(tested_funcs) * 100,
                                       Cardinality(production_funcs))
                            ELSE Zero]]]

(***************************************************************************)
(* Files fed to the analyzers, in any order, then finalize                 *)
(***************************************************************************)
Block(name, complexity) == [name |-> name, complexity |-> complexity]
Op(collection, type) == [collection |-> collection, type |-> type]
Raw(sloc, comments, blank) ==
    [sloc |-> sloc, comments |-> comments, blank |-> blank,
     loc |-> sloc + comments + blank]
Fn(name, lines, params, depth) ==
    [name |-> name, lines |-> lines, params |-> params, depth |-> depth]
Class(name, methods, lcom, wmc) ==
    [class |-> name, methods |-> methods, lcom |-> lcom, wmc |-> wmc]

\* What the parsers extract from four file contents.  "p" holds a class C
\* of 25 methods and, nested in another class, a second class C of 2 methods
\* (the WMC is summed by class name, so both have the same).  "p" and "q" have the
\* same severity score and the same maximal complexity; "u" cannot be read.
Contents ==
    { [name |-> <<"p">>, readable |-> TRUE, parses |-> TRUE,
       blocks |-> <<Block("f", 5), Block("g", 12), Block("C.a", 6)>>,
       operations |-> <<Op("users", "read"), Op("orders", "write")>>,
       mixed_logic |-> TRUE, raw |-> Raw(60, 2, 5), mi |-> 70,
       functions |-> <<Fn("f", 10, 1, 1), Fn("g", 55, 6, 5)>>,
       classes |-> <<Class("C", 25, 1, 15), Class("C", 2, 1, 15)>>,
       imports |-> << P_b >>],
      [name |-> <<"q">>, readable |-> TRUE, parses |-> TRUE,
       blocks |-> <<Block("h", 12), Block("D.b", 11)>>,
       operations |-> <<Op("orders", "write")>>,
       mixed_logic |-> FALSE, raw |-> Raw(600, 100, 10), mi |-> 15,
       functions |-> <<Fn("h", 20, 2, 2)>>,
       classes |-> <<Class("D", 25, 3, 60), Class("E", 0, 0, 0)>>,
       imports |-> << P_a, P_ab >>],
      [name |-> <<"r">>, readable |-> TRUE, parses |-> TRUE,
       blocks |-> <<Block("k", 21), Block("m", 10), Block("n", 20)>>,
       operations |-> <<Op("logs", "write"), Op("orders", "read"), Op("audit", "write")>>,
       mixed_logic |-> FALSE, raw |-> Raw(101, 0, 0), mi |-> 0 - 1,
       functions |-> <<Fn("k", 60, 0, 0), Fn("m", 5, 0, 0), Fn("n", 5, 0, 0)>>,
       classes |-> <<>>,
       imports |-> << P_a, P_b, P_x >>],
      [name |-> <<"u">>, readable |-> FALSE, parses |-> FALSE,
       blocks |-> <<>>, operations |-> <<>>, mixed_logic |-> FALSE,
       raw |-> Raw(0, 0, 0), mi |-> 0 - 1, functions |-> <<>>,
       classes |-> <<>>, imports |-> <<>>] }

\* the modules the detector found, and the module names files are given
AccModules == <<M_a, M_b>>
AccModuleNames == { P_a, P_b, ROOT }

\* what a file that is no test file has of the attributes of a test file
NoTestFile == [is_test |-> FALSE, inferred_module |-> ROOT, tests |-> <<>>,
               integration |-> FALSE]

SourceFile(content, module_name) ==
    [file |-> IF module_name = ROOT THEN content.name
              ELSE module_name \o <<"/">> \o content.name,
     module |-> module_name]
    @@ content @@ NoTestFile

SourceFiles == { SourceFile(c, m) : c \in Contents, m \in AccModuleNames }

MaxAccFiles == 3

AccFileSets == { S \in SUBSET SourceFiles : Cardinality(S) <= MaxAccFiles }

\* the analyzers' results dicts after construction
AnalyzersInit ==
    [complexity |-> ComplexityResults, db_coupling |-> DbCouplingResults,
     code_size |-> CodeSizeResults, maintainability |-> MaintainabilityResults,
     class_metrics |-> ClassMetricsResults, code_smells |-> CodeSmellsResults,
     module_coupling |-> ModuleCouplingResults(AccModules), tests |-> TestsResults]

\* one file handed to each analyzer's analyze_file
AnalyzeOne(r, f) ==
    [complexity |-> ComplexityAnalyzeFile(r.complexity, f),
     db_coupling |-> IF f.is_test THEN r.db_coupling
                     ELSE DbAnalyzeFile(r.db_coupling, f),
     code_size |-> CodeSizeAnalyzeFile(r.code_size, f),
     maintainability |-> MaintainabilityAnalyzeFile(r.maintainability, f),
     class_metrics |-> ClassAnalyzeFile(r.class_metrics, f),
     code_smells |-> SmellsAnalyzeFile(r.code_smells, f),
     module_coupling |-> CouplingAnalyzeFile(r.module_coupling, f),
     tests |-> TestsAnalyzeFile(r.tests, f)]

\* each analyzer's finalize_results
FinalizeAll(r) ==
    [complexity |-> ComplexityFinalize(r.complexity),
     db_coupling |-> DbFinalize(r.db_coupling),
     code_size |-> CodeSizeFinalize(r.code_size),
     maintainability |-> MaintainabilityFinalize(r.maintainability),
     class_metrics |-> ClassFinalize(r.class_metrics),
     code_smells |-> SmellsFinalize(r.code_smells),
     module_coupling |-> CouplingFinalize(r.module_coupling),
     tests |-> TestsFinalize(r.tests)]

RECURSIVE AnalyzeInOrder(_, _)
AnalyzeInOrder(r, order) ==
    IF order = <<>> THEN r
    ELSE AnalyzeInOrder(AnalyzeOne(r, Head(order)), Tail(order))

\* the finalized results of fresh analyzers fed the files in the given order
RunInOrder(order) == FinalizeAll(AnalyzeInOrder(AnalyzersInit, order))

AccAnalyzeFile(f) ==
    /\ ~acc.finalized
    /\ f \in acc.files
    /\ \A i \in 1..Len(acc.order) : acc.order[i] # f
    /\ acc' = [acc EXCEPT !.order = Append(@, f), !.r = AnalyzeOne(@, f)]
    /\ UNCHANGED <<auxVars, detVars, pipeVars, hs, td, ds, mcs, cl>>

AccFinalize ==
    /\ ~acc.finalized
    /\ Len(acc.order) = Cardinality(acc.files)
    /\ acc' = [acc EXCEPT !.r = FinalizeAll(@), !.finalized = TRUE]
    /\ UNCHANGED <<auxVars, detVars, pipeVars, hs, td, ds, mcs, cl>>

InitAcc ==
    /\ config = Config("manual", 1, AccModules, <<>>)
    /\ modules = AccModules
    /\ cache = EmptyCache
    /\ ret = NoRet
    /\ calls = 0
    /\ PipeIdle
    /\ \E S \in AccFileSets :
          acc = [files |-> S, order |-> <<>>, r |-> AnalyzersInit, finalized |-> FALSE]
    /\ hs = HealthIdle
    /\ td = DebtIdle
    /\ ds = StreamIdle
    /\ mcs = CouplingIdle
    /\ cl = ClassIdle
    /\ cf = ConfigIdle
    /\ itm = InferIdle

NextAcc ==
    \/ \E f \in SourceFiles : AccAnalyzeFile(f)
    \/ AccFinalize

SpecAcc == InitAcc /\ [][NextAcc]_vars

(***************************************************************************)
(* Properties of the analyzers' accumulators                               *)
(***************************************************************************)
\* the sum of a count over the entries of a by_module dict
DictSum(d, Count(_)) ==
    LET RECURSIVE Add(_)
        Add(S) == IF S = {} THEN 0
                  ELSE LET k == CHOOSE k \in S : TRUE
                       IN  Count(d[k]) + Add(S \ {k})
    IN  Add(DOMAIN d)

\* C3: after any sequence of per-file analyses followed by finalize, each
\* analyzer's global count is the sum of the same count over its by_module
\* entries (complexity total_functions; code-size file_count and total_sloc;
\* maintainability total_files; class-metrics total_classes; code-smells
\* total_smells; DB-coupling total_operations and severity_score).
C3_GlobalCountsAreModuleSums ==
    acc.finalized =>
        /\ acc.r.complexity.total_functions =
               DictSum(acc.r.complexity.by_module, LAMBDA s : s.total_functions)
        /\ acc.r.code_size.file_count =
               DictSum(acc.r.code_size.by_module, LAMBDA s : s.file_count)
        /\ acc.r.code_size.total_sloc =
               DictSum(acc.r.code_size.by_module, LAMBDA s : s.total_sloc)
        /\ acc.r.maintainability.total_files =
               DictSum(acc.r.maintainability.by_module, LAMBDA s : s.file_count)
        /\ acc.r.class_metrics.total_classes =
               DictSum(acc.r.class_metrics.by_module, LAMBDA s : s.total_classes)
        /\ acc.r.code_smells.total_smells =
               DictSum(acc.r.code_smells.by_module, LAMBDA s : s.total_smells)
        /\ acc.r.db_coupling.total_operations =
               DictSum(acc.r.db_coupling.by_module, LAMBDA s : s.total_operations)
        /\ acc.r.db_coupling.severity_score =
               DictSum(acc.r.db_coupling.by_module, LAMBDA s : s.severity_score)

\* three files of two modules were analyzed and every analyzer counted
C3_Witness ==
    /\ acc.finalized
    /\ Len(acc.order) = 3
    /\ Cardinality(DOMAIN acc.r.complexity.by_module) >= 2
    /\ Cardinality(DOMAIN acc.r.db_coupling.by_module) >= 2
    /\ acc.r.complexity.total_functions >= 4
    /\ acc.r.code_size.total_sloc > 0
    /\ acc.r.maintainability.total_files >= 2
    /\ acc.r.class_metrics.total_classes >= 2
    /\ acc.r.code_smells.total_smells >= 2
    /\ acc.r.db_coupling.severity_score > 0

\* the numeric aggregates C4 names
ComplexityNumbers(r) ==
    [total_functions |-> r.total_functions, avg_complexity |-> r.avg_complexity,
     max_complexity |-> r.max_complexity, distribution |-> r.distribution,
     by_module |-> r.by_module]

DbNumbers(r) ==
    [total_operations |-> r.total_operations, severity_score |-> r.severity_score,
     total_files_with_db |-> r.total_files_with_db,
     by_module |-> r.by_module,
     collections_accessed |-> [c \in DOMAIN r.collections_accessed |->
        [reads |-> r.collections_accessed[c].reads,
         writes |-> r.collections_accessed[c].writes]]]

CouplingNumbers(r) ==
    [m \in DOMAIN r.per_module |->
        [afferent_coupling |-> r.per_module[m].afferent_coupling,
         efferent_coupling |-> r.per_module[m].efferent_coupling,
         instability |-> r.per_module[m].instability]]

NumericAggregates(r) ==
    <<ComplexityNumbers(r.complexity), DbNumbers(r.db_coupling),
      CouplingNumbers(r.module_coupling)>>

\* C4: for any set of files, the numeric aggregates of the finalized
\* complexity, DB-coupling and module-coupling analyzers are the same whatever
\* order the files were analyzed in.
C4_NumericAggregatesOrderIndependent ==
    acc.finalized =>
        \A order \in Orders(acc.files) :
            NumericAggregates(RunInOrder(order)) = NumericAggregates(acc.r)

\* three files with different maxima and operations were analyzed in an order
\* where a later file has the smaller maximal complexity
C4_Witness ==
    /\ acc.finalized
    /\ Len(acc.order) = 3
    /\ \E i, j \in 1..3 :
          /\ i < j
          /\ acc.order[i].blocks # <<>> /\ acc.order[j].blocks # <<>>
          /\ acc.order[i].module = acc.order[j].module
          /\ ProcessComplexityBlocks(acc.order[i].blocks, acc.order[i].file,
                                     acc.order[i].module).max_complexity
             > ProcessComplexityBlocks(acc.order[j].blocks, acc.order[j].file,
                                       acc.order[j].module).max_complexity
    /\ acc.r.db_coupling.total_operations >= 3
    /\ \E m \in DOMAIN acc.r.module_coupling.per_module :
          /\ acc.r.module_coupling.per_module[m].afferent_coupling > 0
          /\ acc.r.module_coupling.per_module[m].efferent_coupling > 0

\* C5: for any set of files, the DB-coupling top_coupled_files list and the
\* complexity max_complexity_function record of the finalized analyzers are
\* the same whatever order the files were analyzed in, also when files have
\* equal severity scores or functions have equal complexity.
C5_RankedRecordsOrderIndependent ==
    acc.finalized =>
        \A order \in Orders(acc.files) :
            /\ RunInOrder(order).db_coupling.top_coupled_files
                   = acc.r.db_coupling.top_coupled_files
            /\ RunInOrder(order).complexity.max_complexity_function
                   = acc.r.complexity.max_complexity_function

(***************************************************************************)
(* ModuleHealthCalculator.  Scores are exact rationals <<n, d>>, d > 0, in *)
(* lowest terms.                                                           *)
(***************************************************************************)
RECURSIVE Gcd(_, _)
Gcd(a, b) == IF b = 0 THEN a ELSE Gcd(b, a % b)

Abs(n) == IF n < 0 THEN 0 - n ELSE n

Rat(n, d) ==
    LET g == Gcd(Abs(n), d) IN IF g = 0 THEN <<0, 1>> ELSE <<n \div g, d \div g>>
Whole(n) == <<n, 1>>
RatAdd(a, b) == Rat(a[1] * b[2] + b[1] * a[2], a[2] * b[2])
RatSub(a, b) == Rat(a[1] * b[2] - b[1] * a[2], a[2] * b[2])
RatMul(a, b) == Rat(a[1] * b[1], a[2] * b[2])
RatLe(a, b) == a[1] * b[2] <= b[1] * a[2]
RatLt(a, b) == a[1] * b[2] < b[1] * a[2]
\* max(0, x)
RatMax0(a) == IF a[1] < 0 THEN Whole(0) ELSE a

RECURSIVE RatSum(_)
RatSum(s) == IF s = <<>> THEN Whole(0) ELSE RatAdd(Head(s), RatSum(Tail(s)))

\* WEIGHTS, in hundredths
WEIGHTS ==
    [coupling |-> 30, complexity |-> 20, maintainability |-> 20,
     testability |-> 15, smells |-> 10, debt |-> 5]

\* ModuleHealthCalculator._normalize_coupling; module_stats is <<>> for {}
NormalizeCoupling(module_stats) ==
    LET severity == IF module_stats = <<>> THEN 0 ELSE module_stats[1].severity_score
    IN  IF severity = 0 THEN Whole(100)
        ELSE RatMax0(Whole(100 - severity * 2))

\* ModuleHealthCalculator._normalize_complexity
NormalizeComplexity(module_stats) ==
    LET c == IF module_stats = <<>> THEN Whole(5) ELSE module_stats[1].avg_complexity
    IN  IF RatLe(c, Whole(5)) THEN RatSub(Whole(100), RatMul(RatSub(c, Whole(1)), Whole(5)))
        ELSE IF RatLe(c, Whole(10)) THEN RatSub(Whole(80), RatMul(RatSub(c, Whole(5)), Whole(4)))
        ELSE IF RatLe(c, Whole(20)) THEN RatSub(Whole(60), RatMul(RatSub(c, Whole(10)), Whole(4)))
        ELSE RatMax0(RatSub(Whole(20), RatSub(c, Whole(20))))

\* ModuleHealthCalculator._normalize_smells
NormalizeSmells(smell_stats, size_stats) ==
    LET total_smells == IF smell_stats = <<>> THEN 0 ELSE smell_stats[1].total_smells
        sloc == IF size_stats = <<>> THEN 1 ELSE size_stats[1].total_sloc
        smells_per_kloc == IF sloc > 0 THEN Rat(total_smells * 1000, sloc) ELSE Whole(0)
    IN  RatMax0(RatSub(Whole(100), RatMul(smells_per_kloc, Whole(10))))

\* ModuleHealthCalculator._normalize_debt
NormalizeDebt(debt_stats) ==
    LET r == IF debt_stats = <<>> THEN Whole(0) ELSE debt_stats[1].debt_ratio
    IN  IF RatLe(r, Whole(5)) THEN RatSub(Whole(100), RatMul(r, Whole(2)))
        ELSE IF RatLe(r, Whole(10)) THEN RatSub(Whole(90), RatMul(RatSub(r, Whole(5)), Whole(2)))
        ELSE IF RatLe(r, Whole(20)) THEN RatSub(Whole(80), RatMul(RatSub(r, Whole(10)), Whole(2)))
        ELSE IF RatLe(r, Whole(50))
             THEN RatSub(Whole(60), RatMul(RatSub(r, Whole(20)), Rat(133, 100)))
        ELSE RatMax0(RatSub(Whole(20), RatMul(RatSub(r, Whole(50)), Rat(2, 5))))

\* _categorize_health with strict comparisons
CategorizeHealth_Strict(score) ==
    IF RatLt(Whole(80), score) THEN "excellent"
    ELSE IF RatLt(Whole(60), score) THEN "good"
    ELSE IF RatLt(Whole(40), score) THEN "warning"
    ELSE IF RatLt(Whole(20), score) THEN "critical"
    ELSE "emergency"

\* ModuleHealthCalculator._categorize_health
CategorizeHealth(score) ==
    IF RatLe(Whole(80), score) THEN "excellent"
    ELSE IF RatLe(Whole(60), score) THEN "good"
    ELSE IF RatLe(Whole(40), score) THEN "warning"
    ELSE IF RatLe(Whole(20), score) THEN "critical"
    ELSE "emergency"

\* results.get("by_module", {}).get(module_name, {}): <<>> stands for {}
ModuleEntry(analyzer_results, module_name) ==
    IF module_name \in DOMAIN analyzer_results.by_module
    THEN <<analyzer_results.by_module[module_name]>>
    ELSE <<>>

\* ModuleHealthCalculator._calculate_module_health
CalculateModuleHealth(module_name, inputs) ==
    LET coupling_score == NormalizeCoupling(ModuleEntry(inputs.db_coupling, module_name))
        complexity_score == NormalizeComplexity(ModuleEntry(inputs.complexity, module_name))
        mi == ModuleEntry(inputs.maintainability, module_name)
        maintainability_score == IF mi = <<>> THEN Whole(50) ELSE mi[1].avg_mi
        test_module_data == ModuleEntry(inputs.tests, module_name)
        unit_tests == IF test_module_data = <<>> THEN 0
                      ELSE test_module_data[1].unit_tests
        integration_tests == IF test_module_data = <<>> THEN 0
                             ELSE test_module_data[1].integration_tests
        total_tests == unit_tests + integration_tests
        testability_score == IF total_tests > 0 THEN Rat(unit_tests * 100, total_tests)
                             ELSE Whole(0)
        smells_score == NormalizeSmells(ModuleEntry(inputs.code_smells, module_name),
                                        ModuleEntry(inputs.code_size, module_name))
        debt_score == NormalizeDebt(ModuleEntry(inputs.technical_debt, module_name))
        health_score ==
            RatSum(<<RatMul(coupling_score, Rat(WEIGHTS.coupling, 100)),
                     RatMul(complexity_score, Rat(WEIGHTS.complexity, 100)),
                     RatMul(maintainability_score, Rat(WEIGHTS.maintainability, 100)),
                     RatMul(testability_score, Rat(WEIGHTS.testability, 100)),
                     RatMul(smells_score, Rat(WEIGHTS.smells, 100)),
                     RatMul(debt_score, Rat(WEIGHTS.debt, 100))>>)
    IN  [module |-> module_name, score |-> health_score,
         category |-> CategorizeHealth(health_score),
         components |-> [coupling |-> coupling_score, complexity |-> complexity_score,
                         maintainability |-> maintainability_score,
                         testability |-> testability_score, smells |-> smells_score,
                         debt |-> debt_score]]

\* ModuleHealthCalculator.results after __init__; by_module is a dict, kept
\* as its keys in insertion order and the entry of each key
HealthResults ==
    [overall_health |-> Whole(0), by_module_keys |-> <<>>, by_module |-> EmptyDict,
     module_rankings |-> <<>>]

\* the loop of calculate over the names left; acc3 is
\* <<results, total_health, module_count>>
RECURSIVE CalculateLoop(_, _, _)
CalculateLoop(names, inputs, acc3) ==
    IF names = <<>> THEN acc3
    ELSE LET module_name == Head(names)
             size == ModuleEntry(inputs.code_size, module_name)
             module_sloc == IF size = <<>> THEN 0 ELSE size[1].total_sloc
             health == CalculateModuleHealth(module_name, inputs)
             res == acc3[1]
         IN  IF module_sloc = 0
             THEN CalculateLoop(Tail(names), inputs, acc3)
             ELSE CalculateLoop(Tail(names), inputs,
                    <<[res EXCEPT
                         !.by_module_keys = IF module_name \in DOMAIN res.by_module
                                            THEN @ ELSE Append(@, module_name),
                         !.by_module = DictSet(@, module_name, health)],
                      RatAdd(acc3[2], health.score),
                      acc3[3] + 1>>)

\* ModuleHealthCalculator._create_rankings
CreateRankings(res) ==
    [res EXCEPT !.module_rankings =
        StableSort([i \in 1..Len(res.by_module_keys) |->
                       [module |-> res.by_module_keys[i],
                        score |-> res.by_module[res.by_module_keys[i]].score,
                        category |-> res.by_module[res.by_module_keys[i]].category]],
                   LAMBDA x, y : RatLt(x.score, y.score))]

\* ModuleHealthCalculator.calculate
Calculate(res, names, inputs) ==
    LET out == CalculateLoop(names, inputs, <<res, Whole(0), 0>>)
        overall == IF out[3] > 0 THEN RatMul(out[2], Rat(1, out[3]))
                   ELSE out[1].overall_health
    IN  CreateRankings([out[1] EXCEPT !.overall_health = overall])

\* CodebaseAnalyzer._calculate_composite_metrics: the names handed over
ModuleNames(mods) == [i \in 1..Len(mods) |-> mods[i].name]

(***************************************************************************)
(* The finalized results the health calculator is given                    *)
(***************************************************************************)
\* the by_module entries one module can have in the upstream results; a
\* module no file was attributed to has none
ModuleStats ==
    { [total_sloc |-> 0, file_count |-> 1, severity_score |-> 0,
       avg_complexity |-> Whole(0), avg_mi |-> Whole(100), unit_tests |-> 0,
       integration_tests |-> 0, total_smells |-> 0, debt_ratio |-> Whole(0)],
      [total_sloc |-> 1000, file_count |-> 2, severity_score |-> 0,
       avg_complexity |-> Whole(3), avg_mi |-> Whole(80), unit_tests |-> 3,
       integration_tests |-> 1, total_smells |-> 2, debt_ratio |-> Whole(4)],
      [total_sloc |-> 200, file_count |-> 1, severity_score |-> 12,
       avg_complexity |-> Rat(25, 2), avg_mi |-> Whole(40), unit_tests |-> 0,
       integration_tests |-> 0, total_smells |-> 1, debt_ratio |-> Whole(30)],
      \* every component 80, 60, about 20 and 0
      [total_sloc |-> 1000, file_count |-> 1, severity_score |-> 10,
       avg_complexity |-> Whole(5), avg_mi |-> Whole(80), unit_tests |-> 4,
       integration_tests |-> 1, total_smells |-> 2, debt_ratio |-> Whole(10)],
      [total_sloc |-> 1000, file_count |-> 1, severity_score |-> 20,
       avg_complexity |-> Whole(10), avg_mi |-> Whole(60), unit_tests |-> 3,
       integration_tests |-> 2, total_smells |-> 4, debt_ratio |-> Whole(20)],
      [total_sloc |-> 1000, file_count |-> 1, severity_score |-> 40,
       avg_complexity |-> Whole(20), avg_mi |-> Whole(20), unit_tests |-> 1,
       integration_tests |-> 4, total_smells |-> 8, debt_ratio |-> Whole(50)],
      [total_sloc |-> 100, file_count |-> 1, severity_score |-> 50,
       avg_complexity |-> Whole(40), avg_mi |-> Whole(0), unit_tests |-> 0,
       integration_tests |-> 0, total_smells |-> 50, debt_ratio |-> Whole(100)],
      \* source lines but no function: finalize leaves avg_complexity 0.0
      [total_sloc |-> 100, file_count |-> 1, severity_score |-> 0,
       avg_complexity |-> Whole(0), avg_mi |-> Whole(100), unit_tests |-> 1,
       integration_tests |-> 0, total_smells |-> 0, debt_ratio |-> Whole(0)] }

\* finalized results with the given entry for each module of the dict
HealthInputs(stats) ==
    [code_size |-> [by_module |-> [m \in DOMAIN stats |->
        [total_sloc |-> stats[m].total_sloc, file_count |-> stats[m].file_count]]],
     db_coupling |-> [by_module |-> [m \in DOMAIN stats |->
        [severity_score |-> stats[m].severity_score]]],
     complexity |-> [by_module |-> [m \in DOMAIN stats |->
        [avg_complexity |-> stats[m].avg_complexity]]],
     maintainability |-> [by_module |-> [m \in DOMAIN stats |->
        [avg_mi |-> stats[m].avg_mi]]],
     tests |-> [by_module |-> [m \in DOMAIN stats |->
        [unit_tests |-> stats[m].unit_tests,
         integration_tests |-> stats[m].integration_tests]]],
     code_smells |-> [by_module |-> [m \in DOMAIN stats |->
        [total_smells |-> stats[m].total_smells]]],
     technical_debt |-> [by_module |-> [m \in DOMAIN stats |->
        [debt_ratio |-> stats[m].debt_ratio]]]]

MaxModules == 3

\* lists of detected modules; two modules can share a name ("b" and "b/b")
HealthModules == { M_a, M_b, M_bb }
HealthModuleLists ==
    UNION { [1..n -> HealthModules] : n \in 0..MaxModules }

\* get_module_for_file attributes a file to a detected module or to "root"
AttributedNames(mods) == { mods[i].name : i \in 1..Len(mods) } \cup { ROOT }

HealthCalculate ==
    /\ ~hs.done
    /\ hs' = [hs EXCEPT
                !.results = Calculate(HealthResults, ModuleNames(hs.modules), hs.inputs),
                !.done = TRUE]
    /\ UNCHANGED <<auxVars, detVars, pipeVars, acc, td, ds, mcs, cl>>

InitHealth ==
    /\ \E mods \in HealthModuleLists :
          /\ config = Config("manual", 1, mods, <<>>)
          /\ modules = mods
          /\ \E keys \in SUBSET AttributedNames(mods) :
             \E stats \in [keys -> ModuleStats] :
                hs = [modules |-> mods, inputs |-> HealthInputs(stats),
                      results |-> HealthResults, done |-> FALSE]
    /\ cache = EmptyCache
    /\ ret = NoRet
    /\ calls = 0
    /\ PipeIdle
    /\ acc = AccIdle
    /\ td = DebtIdle
    /\ ds = StreamIdle
    /\ mcs = CouplingIdle
    /\ cl = ClassIdle
    /\ cf = ConfigIdle
    /\ itm = InferIdle

NextHealth == HealthCalculate

SpecHealth == InitHealth /\ [][NextHealth]_vars

(***************************************************************************)
(* Properties of the health calculator                                     *)
(***************************************************************************)
\* the source lines the code-size results hold for a module
SourceLines(inputs, module_name) ==
    IF module_name \in DOMAIN inputs.code_size.by_module
    THEN inputs.code_size.by_module[module_name].total_sloc
    ELSE 0

Ranked(res, module_name) ==
    \E i \in 1..Len(res.module_rankings) : res.module_rankings[i].module = module_name

\* C9: a module has a module-health entry (and is ranked) if and only if the
\* code-size results hold more than zero source lines for it; this for every
\* module name files can be attributed to, the synthetic "root" included.
C9_HealthEntryIffSourceLines ==
    hs.done =>
        \A m \in AttributedNames(hs.modules) :
            (m \in DOMAIN hs.results.by_module /\ Ranked(hs.results, m))
                <=> SourceLines(hs.inputs, m) > 0

\* the unweighted mean of the scores of the by_module entries
MeanScore(by_module) ==
    LET RECURSIVE Add(_)
        Add(S) == IF S = {} THEN Whole(0)
                  ELSE LET k == CHOOSE k \in S : TRUE
                       IN  RatAdd(by_module[k].score, Add(S \ {k}))
        n == Cardinality(DOMAIN by_module)
    IN  IF n = 0 THEN Whole(0) ELSE RatMul(Add(DOMAIN by_module), Rat(1, n))

\* C10: for any list of module names, also one where two detected modules
\* share a name, overall_health is the unweighted mean of the scores of the
\* modules in by_module (0.0 when there are none), and module_rankings holds
\* exactly those modules, each once, in non-decreasing score order.
C10_OverallIsUnweightedMean ==
    hs.done =>
        LET res == hs.results
            rk  == res.module_rankings
        IN  /\ res.overall_health = MeanScore(res.by_module)
            /\ Len(rk) = Cardinality(DOMAIN res.by_module)
            /\ { rk[i].module : i \in 1..Len(rk) } = DOMAIN res.by_module
            /\ \A i \in 1..Len(rk) : rk[i].score = res.by_module[rk[i].module].score
            /\ \A i \in 1..(Len(rk) - 1) : RatLe(rk[i].score, rk[i + 1].score)

(***************************************************************************)
(* Properties of the health score                                          *)
(***************************************************************************)
InRange0To100(x) == RatLe(Whole(0), x) /\ RatLe(x, Whole(100))

\* the upstream results of a module are in the ranges the analyzers document
UpstreamInRange(inputs, m) ==
    /\ inputs.db_coupling.by_module[m].severity_score >= 0
    /\ inputs.code_smells.by_module[m].total_smells >= 0
    /\ RatLe(Whole(0), inputs.technical_debt.by_module[m].debt_ratio)
    /\ RatLe(Whole(1), inputs.complexity.by_module[m].avg_complexity)
    /\ InRange0To100(inputs.maintainability.by_module[m].avg_mi)

\* coupling*0.30 + complexity*0.20 + maintainability*0.20 + testability*0.15
\* + smells*0.10 + debt*0.05
WeightedScore(c) ==
    RatSum(<<Rat(c.coupling[1] * 30, c.coupling[2] * 100),
             Rat(c.complexity[1] * 20, c.complexity[2] * 100),
             Rat(c.maintainability[1] * 20, c.maintainability[2] * 100),
             Rat(c.testability[1] * 15, c.testability[2] * 100),
             Rat(c.smells[1] * 10, c.smells[2] * 100),
             Rat(c.debt[1] * 5, c.debt[2] * 100)>>)

CategoryOf(score) ==
    CASE RatLe(Whole(80), score) -> "excellent"
      [] RatLe(Whole(60), score) /\ RatLt(score, Whole(80)) -> "good"
      [] RatLe(Whole(40), score) /\ RatLt(score, Whole(60)) -> "warning"
      [] RatLe(Whole(20), score) /\ RatLt(score, Whole(40)) -> "critical"
      [] RatLt(score, Whole(20)) -> "emergency"

\* C11: for every included module whose upstream results have non-negative
\* severity, smell count and debt ratio, average complexity of at least 1 and
\* average maintainability within 0..100, each of the six components lies in
\* 0..100, the score is the weighted sum of the components and lies in
\* 0..100, and the category follows the thresholds 80 / 60 / 40 / 20.
C11_HealthScoreInRange ==
    hs.done =>
        \A m \in DOMAIN hs.results.by_module :
            UpstreamInRange(hs.inputs, m) =>
                LET h == hs.results.by_module[m]
                    c == h.components
                IN  /\ \A k \in DOMAIN c : InRange0To100(c[k])
                    /\ DOMAIN c = {"coupling", "complexity", "maintainability",
                                   "testability", "smells", "debt"}
                    /\ h.score = WeightedScore(c)
                    /\ InRange0To100(h.score)
                    /\ h.category = CategoryOf(h.score)

\* a module in range scoring exactly 80 next to one scoring below 20
C11_Witness ==
    /\ hs.done
    /\ \E m \in DOMAIN hs.results.by_module :
          /\ UpstreamInRange(hs.inputs, m)
          /\ hs.results.by_module[m].score = Whole(80)
          /\ hs.results.by_module[m].category = "excellent"
    /\ \E m \in DOMAIN hs.results.by_module :
          /\ UpstreamInRange(hs.inputs, m)
          /\ hs.results.by_module[m].category = "emergency"

(***************************************************************************)
(* TechnicalDebtCalculator.  Hours and ratios are exact rationals.         *)
(***************************************************************************)
\* self.avg_hours_per_loc
AvgHoursPerLoc == Rat(1, 10)

\* DEFAULT_CONFIG["remediation_costs"], which load_config merges in
DefaultRemediationCosts ==
    [very_high_complexity |-> Whole(1), high_complexity |-> Rat(1, 2),
     low_maintainability |-> Whole(2), god_class |-> Whole(4),
     god_method |-> Whole(2), long_method |-> Rat(1, 2),
     long_parameter_list |-> Rat(1, 4), deep_nesting |-> Rat(1, 2),
     duplicate_code |-> Whole(1), ownership_violation_write |-> Whole(2),
     ownership_violation_read |-> Rat(1, 2), low_cohesion |-> Whole(3),
     high_fan_out |-> Whole(1)]

\* config.get('remediation_costs', {}): the merged defaults, or no entry at
\* all when the calculator is built from a config without the table
CostTable(keys) == [k \in keys |-> DefaultRemediationCosts[k]]
CostTables == { CostTable({}), CostTable(DOMAIN DefaultRemediationCosts) }

DebtModuleDefault ==
    [debt_hours |-> Whole(0), debt_ratio |-> Whole(0), sqale_rating |-> "A", sloc |-> 0]

IssueCostDefault == [count |-> 0, total_hours |-> Whole(0)]

\* TechnicalDebtCalculator.results after __init__
DebtResults ==
    [total_remediation_hours |-> Whole(0), total_remediation_days |-> Whole(0),
     development_cost_hours |-> Whole(0), debt_ratio |-> Whole(0),
     sqale_rating |-> "A", debt_breakdown |-> EmptyDict, by_module |-> EmptyDict,
     top_debt_files |-> <<>>, issue_costs |-> EmptyDict]

\* TechnicalDebtCalculator._add_debt
AddDebt(res, issue_type, hours) ==
    LET ic == DictGet(res.issue_costs, issue_type, IssueCostDefault)
    IN  [res EXCEPT
            !.total_remediation_hours = RatAdd(@, hours),
            !.issue_costs = DictSet(@, issue_type,
                [count |-> ic.count + 1, total_hours |-> RatAdd(ic.total_hours, hours)])]

\* one loop of a _calculate_*_debt method: each issue is charged
\* remediation_costs.get(issue_type, default)
RECURSIVE AddDebts(_, _, _, _)
AddDebts(res, costs, issue_types, default) ==
    IF issue_types = <<>> THEN res
    ELSE AddDebts(AddDebt(res, Head(issue_types),
                          DictGet(costs, Head(issue_types), default)),
                  costs, Tail(issue_types), default)

\* debt_breakdown[name] = sum(issue_costs[k]['total_hours'] for k in keys);
\* reading a key of the defaultdict creates its entry
DebtBreakdown(res, name, keys) ==
    LET ic == [k \in DOMAIN res.issue_costs \cup { keys[i] : i \in 1..Len(keys) } |->
                  DictGet(res.issue_costs, k, IssueCostDefault)]
    IN  [res EXCEPT
            !.issue_costs = ic,
            !.debt_breakdown = DictSet(@, name,
                RatSum([i \in 1..Len(keys) |-> ic[keys[i]].total_hours]))]

\* a list of n issues of one type
Repeat(issue_type, n) == [i \in 1..n |-> issue_type]

\* TechnicalDebtCalculator._calculate_complexity_debt
CalculateComplexityDebt(res, costs, complexity_results) ==
    LET high_complexity == complexity_results.high_complexity_functions
    IN  DebtBreakdown(
            AddDebts(res, costs,
                     [i \in 1..Len(high_complexity) |->
                         IF high_complexity[i].complexity > 20
                         THEN "very_high_complexity" ELSE "high_complexity"],
                     Rat(1, 2)),
            "complexity", <<"very_high_complexity", "high_complexity">>)

\* TechnicalDebtCalculator._calculate_maintainability_debt
CalculateMaintainabilityDebt(res, costs, maintainability_results) ==
    LET charged == AddDebts(res, costs,
                       Repeat("low_maintainability",
                              Len(maintainability_results.low_maintainability_files)),
                       Whole(2))
        ic == DictGet(charged.issue_costs, "low_maintainability", IssueCostDefault)
    IN  [charged EXCEPT
            !.issue_costs = DictSet(@, "low_maintainability", ic),
            !.debt_breakdown = DictSet(@, "maintainability", ic.total_hours)]

\* TechnicalDebtCalculator._calculate_db_coupling_debt
CalculateDbCouplingDebt(res, costs, db_coupling_results) ==
    LET violations == db_coupling_results.violations
    IN  DebtBreakdown(
            AddDebts(res, costs,
                     [i \in 1..Len(violations) |->
                         IF violations[i].type = "write"
                         THEN "ownership_violation_write"
                         ELSE "ownership_violation_read"],
                     Whole(1)),
            "db_coupling", <<"ownership_violation_write", "ownership_violation_read">>)

\* TechnicalDebtCalculator._calculate_class_debt
CalculateClassDebt(res, costs, class_metrics_results) ==
    LET god == AddDebts(res, costs,
                   Repeat("god_class", Len(class_metrics_results.god_classes)),
                   Whole(4))
        low == AddDebts(god, costs,
                   Repeat("low_cohesion", Len(class_metrics_results.low_cohesion_classes)),
                   Whole(3))
    IN  DebtBreakdown(low, "class_design", <<"god_class", "low_cohesion">>)

\* TechnicalDebtCalculator._calculate_smells_debt
CalculateSmellsDebt(res, costs, code_smells_results) ==
    LET long_methods == AddDebts(res, costs,
                            Repeat("long_method", Len(code_smells_results.long_methods)),
                            Rat(1, 2))
        long_params == AddDebts(long_methods, costs,
                           Repeat("long_parameter_list",
                                  Len(code_smells_results.long_parameter_lists)),
                           Rat(1, 4))
        deep_nesting == AddDebts(long_params, costs,
                            Repeat("deep_nesting", Len(code_smells_results.deep_nesting)),
                            Rat(1, 2))
    IN  DebtBreakdown(deep_nesting, "code_smells",
                      <<"long_method", "long_parameter_list", "deep_nesting">>)

\* TechnicalDebtCalculator._get_sqale_rating with r < 5 for the first band
GetSqaleRating_StrictA(debt_ratio) ==
    IF RatLt(debt_ratio, Whole(5)) THEN "A"
    ELSE IF RatLe(debt_ratio, Whole(10)) THEN "B"
    ELSE IF RatLe(debt_ratio, Whole(20)) THEN "C"
    ELSE IF RatLe(debt_ratio, Whole(50)) THEN "D"
    ELSE "E"

\* TechnicalDebtCalculator._get_sqale_rating
GetSqaleRating(debt_ratio) ==
    IF RatLe(debt_ratio, Whole(5)) THEN "A"
    ELSE IF RatLe(debt_ratio, Whole(10)) THEN "B"
    ELSE IF RatLe(debt_ratio, Whole(20)) THEN "C"
    ELSE IF RatLe(debt_ratio, Whole(50)) THEN "D"
    ELSE "E"

\* a / b for b > 0
RatDiv(a, b) == Rat(a[1] * b[2], a[2] * b[1])

\* the body of the second loop of _calculate_module_debt: module_debt
ModuleDebtHours(costs, inputs, module_name) ==
    LET complexity_by_module == inputs.complexity.by_module
        mi_by_module == inputs.maintainability.by_module
        db_by_module == inputs.db_coupling.by_module
        class_by_module == inputs.class_metrics.by_module
        smells_by_module == inputs.code_smells.by_module
    IN  RatSum(<<
            IF module_name \in DOMAIN complexity_by_module
            THEN RatMul(Whole(complexity_by_module[module_name].high_complexity_count),
                        DictGet(costs, "high_complexity", Rat(1, 2)))
            ELSE Whole(0),
            IF module_name \in DOMAIN mi_by_module
            THEN RatMul(Whole(mi_by_module[module_name].low_mi_count),
                        DictGet(costs, "low_maintainability", Whole(2)))
            ELSE Whole(0),
            IF module_name \in DOMAIN db_by_module
            THEN RatAdd(RatMul(Whole(db_by_module[module_name].violations_write),
                               DictGet(costs, "ownership_violation_write", Whole(2))),
                        RatMul(Whole(db_by_module[module_name].violations_read),
                               DictGet(costs, "ownership_violation_read", Rat(1, 2))))
            ELSE Whole(0),
            IF module_name \in DOMAIN class_by_module
            THEN RatMul(Whole(class_by_module[module_name].god_classes_count),
                        DictGet(costs, "god_class", Whole(4)))
            ELSE Whole(0),
            IF module_name \in DOMAIN smells_by_module
            THEN RatSum(<<
                    RatMul(Whole(smells_by_module[module_name].long_methods),
                           DictGet(costs, "long_method", Rat(1, 2))),
                    RatMul(Whole(smells_by_module[module_name].long_parameter_lists),
                           DictGet(costs, "long_parameter_list", Rat(1, 4))),
                    RatMul(Whole(smells_by_module[module_name].deep_nesting),
                           DictGet(costs, "deep_nesting", Rat(1, 2)))>>)
            ELSE Whole(0)>>)

\* TechnicalDebtCalculator._calculate_module_debt
CalculateModuleDebt(res, costs, inputs) ==
    LET module_sloc == inputs.code_size.by_module
    IN  [res EXCEPT !.by_module =
            [module_name \in DOMAIN module_sloc |->
                LET sloc == module_sloc[module_name].total_sloc
                    module_debt == ModuleDebtHours(costs, inputs, module_name)
                    module_debt_ratio ==
                        RatMul(RatDiv(module_debt, RatMul(Whole(sloc), AvgHoursPerLoc)),
                               Whole(100))
                IN  IF sloc > 0
                    THEN [debt_hours |-> module_debt, sloc |-> sloc,
                          debt_ratio |-> module_debt_ratio,
                          sqale_rating |-> GetSqaleRating(module_debt_ratio)]
                    ELSE [DebtModuleDefault EXCEPT !.debt_hours = module_debt,
                                                   !.sloc = sloc]]]

\* TechnicalDebtCalculator._finalize_debt_calculations
FinalizeDebtCalculations(res) ==
    LET debt_ratio == IF res.development_cost_hours[1] > 0
                      THEN RatMul(RatDiv(res.total_remediation_hours,
                                         res.development_cost_hours), Whole(100))
                      ELSE Whole(0)
    IN  [res EXCEPT
            !.total_remediation_days = RatDiv(res.total_remediation_hours, Whole(8)),
            !.debt_ratio = debt_ratio,
            !.sqale_rating = GetSqaleRating(debt_ratio)]

\* TechnicalDebtCalculator.calculate
DebtCalculate(res, costs, inputs) ==
    LET r0 == [res EXCEPT !.development_cost_hours =
                  RatMul(Whole(inputs.code_size.total_sloc), AvgHoursPerLoc)]
        r1 == CalculateComplexityDebt(r0, costs, inputs.complexity)
        r2 == CalculateMaintainabilityDebt(r1, costs, inputs.maintainability)
        r3 == CalculateDbCouplingDebt(r2, costs, inputs.db_coupling)
        r4 == CalculateClassDebt(r3, costs, inputs.class_metrics)
        r5 == CalculateSmellsDebt(r4, costs, inputs.code_smells)
    IN  FinalizeDebtCalculations(CalculateModuleDebt(r5, costs, inputs))

(***************************************************************************)
(* The calculator on the finalized results of the analyzers                *)
(***************************************************************************)
\* What the parsers extract from the file contents the calculator is tried
\* on: one kind of issue each, with source-line counts that put the debt
\* ratio on and next to the rating boundaries.
DebtContents ==
    { \* one high-complexity function and a plain one in 100 lines, importing
      \* module b
      [name |-> <<"h">>, readable |-> TRUE, parses |-> TRUE,
       blocks |-> <<Block("f", 12), Block("u", 1)>>, operations |-> <<>>,
       mixed_logic |-> FALSE, raw |-> Raw(100, 0, 0), mi |-> 70,
       functions |-> <<Fn("f", 10, 1, 1), Fn("u", 3, 0, 1)>>, classes |-> <<>>,
       imports |-> << P_b >>],
      \* one very-high-complexity function in 99 lines
      [name |-> <<"v">>, readable |-> TRUE, parses |-> TRUE,
       blocks |-> <<Block("g", 25)>>, operations |-> <<>>,
       mixed_logic |-> FALSE, raw |-> Raw(99, 0, 0), mi |-> 70,
       functions |-> <<Fn("g", 10, 1, 1)>>, classes |-> <<>>, imports |-> <<>>],
      \* low maintainability in 100 lines, with one private function
      [name |-> <<"l">>, readable |-> TRUE, parses |-> TRUE,
       blocks |-> <<Block("_h", 2)>>, operations |-> <<>>,
       mixed_logic |-> FALSE, raw |-> Raw(100, 0, 0), mi |-> 15,
       functions |-> <<Fn("_h", 5, 1, 1)>>, classes |-> <<>>, imports |-> <<>>],
      \* a god class by its method count and one by its low cohesion, in 80
      \* lines
      [name |-> <<"c">>, readable |-> TRUE, parses |-> TRUE,
       blocks |-> <<>>, operations |-> <<>>,
       mixed_logic |-> FALSE, raw |-> Raw(80, 0, 0), mi |-> 70,
       functions |-> <<>>,
       classes |-> <<Class("G", 25, 1, 10), Class("L", 3, 3, 6)>>,
       imports |-> <<>>],
      \* a write and a read on another service's collection in 50 lines
      [name |-> <<"d">>, readable |-> TRUE, parses |-> TRUE,
       blocks |-> <<>>, operations |-> <<Op("orders", "write"), Op("orders", "read")>>,
       mixed_logic |-> FALSE, raw |-> Raw(50, 0, 0), mi |-> 70,
       functions |-> <<>>, classes |-> <<>>, imports |-> <<>>],
      \* a long method, a long parameter list and deep nesting in 125 lines
      [name |-> <<"s">>, readable |-> TRUE, parses |-> TRUE,
       blocks |-> <<Block("k", 3)>>, operations |-> <<>>,
       mixed_logic |-> FALSE, raw |-> Raw(125, 0, 0), mi |-> 70,
       functions |-> <<Fn("k", 60, 6, 5)>>, classes |-> <<>>, imports |-> <<>>],
      \* comments only: no source line, no issue
      [name |-> <<"e">>, readable |-> TRUE, parses |-> TRUE,
       blocks |-> <<>>, operations |-> <<>>,
       mixed_logic |-> FALSE, raw |-> Raw(0, 3, 0), mi |-> 100,
       functions |-> <<>>, classes |-> <<>>, imports |-> <<>>],
      \* a unit-test file for module a: an edge-case test of f and a
      \* happy-path test of nothing in the code base
      [name |-> <<"t">>, readable |-> TRUE, parses |-> TRUE,
       blocks |-> <<Block("test_f", 1), Block("test_x", 1)>>, operations |-> <<>>,
       mixed_logic |-> FALSE, raw |-> Raw(10, 0, 0), mi |-> 90,
       functions |-> <<Fn("test_f", 4, 0, 1), Fn("test_x", 4, 0, 1)>>,
       classes |-> <<>>, imports |-> <<>>,
       is_test |-> TRUE, inferred_module |-> P_a, integration |-> FALSE,
       tests |-> <<[name |-> TestName("f"), edge |-> TRUE],
                   [name |-> TestName("x"), edge |-> FALSE]>>],
      \* an integration-test file for module b without a test function
      [name |-> <<"i">>, readable |-> TRUE, parses |-> TRUE,
       blocks |-> <<>>, operations |-> <<>>,
       mixed_logic |-> FALSE, raw |-> Raw(0, 0, 0), mi |-> 100,
       functions |-> <<>>, classes |-> <<>>, imports |-> <<>>,
       is_test |-> TRUE, inferred_module |-> P_b, integration |-> TRUE,
       tests |-> <<>>] }

DebtSourceFiles == { SourceFile(c, m) : c \in DebtContents, m \in {P_a, P_b} }

MaxDebtFiles == 2

DebtFileSets == { S \in SUBSET DebtSourceFiles : Cardinality(S) <= MaxDebtFiles }

\* the results of the analyzers after the files of S
AnalyzedResults(S) == AnalyzeInOrder(AnalyzersInit, CHOOSE order \in Orders(S) : TRUE)

\* CodebaseAnalyzer._finalize_analyzers
DebtFinalizeAnalyzers ==
    /\ ~td.finalized
    /\ td' = [td EXCEPT !.inputs = FinalizeAll(@), !.finalized = TRUE]
    /\ UNCHANGED <<auxVars, detVars, pipeVars, acc, hs, ds, mcs, cl>>

TechDebtCalculate ==
    /\ td.finalized
    /\ ~td.done
    /\ td' = [td EXCEPT !.results = DebtCalculate(DebtResults, td.costs, td.inputs),
                        !.done = TRUE]
    /\ UNCHANGED <<auxVars, detVars, pipeVars, acc, hs, ds, mcs, cl>>

InitDebt ==
    /\ config = Config("manual", 1, AccModules, <<>>)
    /\ modules = AccModules
    /\ cache = EmptyCache
    /\ ret = NoRet
    /\ calls = 0
    /\ PipeIdle
    /\ acc = AccIdle
    /\ hs = HealthIdle
    /\ ds = StreamIdle
    /\ mcs = CouplingIdle
    /\ cl = ClassIdle
    /\ cf = ConfigIdle
    /\ itm = InferIdle
    /\ \E S \in DebtFileSets, costs \in CostTables :
          td = [files |-> S, inputs |-> AnalyzedResults(S), costs |-> costs,
                results |-> DebtResults, finalized |-> FALSE, done |-> FALSE]

NextDebt ==
    \/ DebtFinalizeAnalyzers
    \/ TechDebtCalculate

SpecDebt == InitDebt /\ [][NextDebt]_vars

(***************************************************************************)
(* Properties of the debt calculator                                       *)
(***************************************************************************)
\* the issue instances the upstream results list, as <<issue type, module>>
IssueInstances(inputs) ==
    LET hc == inputs.complexity.high_complexity_functions
        vs == inputs.db_coupling.violations
        Of(list, issue_type) == [i \in 1..Len(list) |-> <<issue_type, list[i].module>>]
    IN  [i \in 1..Len(hc) |->
            <<IF hc[i].complexity > 20 THEN "very_high_complexity"
              ELSE "high_complexity", hc[i].module>>]
        \o Of(inputs.maintainability.low_maintainability_files, "low_maintainability")
        \o [i \in 1..Len(vs) |->
            <<IF vs[i].type = "write" THEN "ownership_violation_write"
              ELSE "ownership_violation_read", vs[i].module>>]
        \o Of(inputs.class_metrics.god_classes, "god_class")
        \o Of(inputs.class_metrics.low_cohesion_classes, "low_cohesion")
        \o Of(inputs.code_smells.long_methods, "long_method")
        \o Of(inputs.code_smells.long_parameter_lists, "long_parameter_list")
        \o Of(inputs.code_smells.deep_nesting, "deep_nesting")

\* the cost of one instance of a type as it went into total_remediation_hours
CostInTotal(res, issue_type) ==
    RatDiv(res.issue_costs[issue_type].total_hours,
           Whole(res.issue_costs[issue_type].count))

\* the sum of debt_hours over the by_module entries
ModuleDebtSum(by_module) ==
    LET RECURSIVE Add(_)
        Add(S) == IF S = {} THEN Whole(0)
                  ELSE LET k == CHOOSE k \in S : TRUE
                       IN  RatAdd(by_module[k].debt_hours, Add(S \ {k}))
    IN  Add(DOMAIN by_module)

\* C12: per-module debt is computed the same way as overall debt: every
\* module's debt_hours is the sum, over the issue instances located in that
\* module, of the cost per instance that went into total_remediation_hours;
\* so when every issue lies in a module with source lines, the per-module
\* debt_hours add up to total_remediation_hours.
C12_ModuleDebtSameAsOverall ==
    td.done =>
        LET issues == IssueInstances(td.inputs)
            res == td.results
            InModule(m) == SelectSeq(issues, LAMBDA x : x[2] = m)
        IN  /\ \A m \in DOMAIN res.by_module :
                  res.by_module[m].debt_hours =
                      RatSum([i \in 1..Len(InModule(m)) |->
                                 CostInTotal(res, InModule(m)[i][1])])
            /\ (\A i \in 1..Len(issues) :
                   /\ issues[i][2] \in DOMAIN res.by_module
                   /\ res.by_module[issues[i][2]].sloc > 0)
               => ModuleDebtSum(res.by_module) = res.total_remediation_hours

\* the defaults the documentation states, per issue type
DocumentedCosts ==
    [very_high_complexity |-> Whole(1), high_complexity |-> Rat(1, 2),
     low_maintainability |-> Whole(2), god_class |-> Whole(4),
     long_method |-> Rat(1, 2), long_parameter_list |-> Rat(1, 4),
     deep_nesting |-> Rat(1, 2), ownership_violation_write |-> Whole(2),
     ownership_violation_read |-> Rat(1, 2), low_cohesion |-> Whole(3)]

\* C13: when the remediation_costs table has no entry for an issue type,
\* each instance of it is charged the documented default, in the overall
\* total and in per-module debt alike.
C13_DocumentedDefaults ==
    (td.done /\ \E t \in DOMAIN DocumentedCosts : t \notin DOMAIN td.costs) =>
        LET issues == IssueInstances(td.inputs)
            res == td.results
            Cost(t) == DictGet(td.costs, t, DocumentedCosts[t])
            InModule(m) == SelectSeq(issues, LAMBDA x : x[2] = m)
        IN  /\ res.total_remediation_hours =
                  RatSum([i \in 1..Len(issues) |-> Cost(issues[i][1])])
            /\ \A m \in DOMAIN res.by_module :
                  res.by_module[m].debt_hours =
                      RatSum([i \in 1..Len(InModule(m)) |-> Cost(InModule(m)[i][1])])

\* the letter of a debt ratio
SqaleOf(ratio) ==
    CASE RatLe(ratio, Whole(5)) -> "A"
      [] RatLt(Whole(5), ratio) /\ RatLe(ratio, Whole(10)) -> "B"
      [] RatLt(Whole(10), ratio) /\ RatLe(ratio, Whole(20)) -> "C"
      [] RatLt(Whole(20), ratio) /\ RatLe(ratio, Whole(50)) -> "D"
      [] RatLt(Whole(50), ratio) -> "E"

\* remediation hours / (sloc * 0.1) * 100, taken as 0 when sloc is 0
DebtRatioOf(hours, sloc) ==
    IF sloc = 0 THEN Whole(0) ELSE Rat(hours[1] * 1000, hours[2] * sloc)

\* C14: the SQALE rating, overall and of every module, is a function of the
\* debt ratio only: A for ratio <= 5, B for <= 10, C for <= 20, D for <= 50,
\* E above; the debt ratio is remediation hours / (sloc * 0.1) * 100, and 0
\* when sloc is 0.
C14_SqaleRatingFromRatio ==
    td.done =>
        LET res == td.results IN
        /\ res.debt_ratio =
              DebtRatioOf(res.total_remediation_hours, td.inputs.code_size.total_sloc)
        /\ res.sqale_rating = SqaleOf(res.debt_ratio)
        /\ \A m \in DOMAIN res.by_module :
              /\ res.by_module[m].debt_ratio =
                    DebtRatioOf(res.by_module[m].debt_hours, res.by_module[m].sloc)
              /\ res.by_module[m].sqale_rating = SqaleOf(res.by_module[m].debt_ratio)

\* one module exactly on the first boundary, rated A, next to a module
\* without source lines
C14_Witness ==
    /\ td.done
    /\ \E m \in DOMAIN td.results.by_module :
          /\ td.results.by_module[m].debt_ratio = Whole(5)
          /\ td.results.by_module[m].sqale_rating = "A"
    /\ \E m \in DOMAIN td.results.by_module : td.results.by_module[m].sloc = 0
    /\ td.results.total_remediation_hours # Whole(0)

(***************************************************************************)
(* Properties of the database-coupling analyzer                            *)
(***************************************************************************)
\* own, else shared, else other
OwnershipOf(collection) ==
    CASE collection \in TableOwnership[ServiceName] -> "own"
      [] collection \notin TableOwnership[ServiceName]
         /\ collection \in TableOwnership["shared"] -> "shared"
      [] OTHER -> "other"

\* the operations of a file on collections of another service
OtherOps(f) == SelectSeq(f.operations, LAMBDA op : OwnershipOf(op.collection) = "other")

\* reads on other * 1 + writes on other * 5
SeverityOf(f) ==
    Len(SelectSeq(OtherOps(f), LAMBDA op : op.type = "read")) * 1
    + Len(SelectSeq(OtherOps(f), LAMBDA op : op.type = "write")) * 5

\* the violation records the operations of the files in the list call for
RECURSIVE ViolationsOf(_)
ViolationsOf(files) ==
    IF files = <<>> THEN <<>>
    ELSE LET f == Head(files)
             ops == IF f.readable THEN OtherOps(f) ELSE <<>>
         IN  [i \in 1..Len(ops) |->
                 [type |-> ops[i].type,
                  severity |-> IF ops[i].type = "write" THEN "critical" ELSE "warning",
                  collection |-> ops[i].collection,
                  file |-> f.file, module |-> f.module]]
             \o ViolationsOf(Tail(files))

\* the sum of the severity scores of the files in the list
RECURSIVE SeveritySum(_)
SeveritySum(files) ==
    IF files = <<>> THEN 0
    ELSE (IF Head(files).readable THEN SeverityOf(Head(files)) ELSE 0)
         + SeveritySum(Tail(files))

\* C15: a collection's ownership is 'own' if it is in
\* table_ownership[service_name], otherwise 'shared' if it is in
\* table_ownership["shared"], otherwise 'other'; exactly the operations on
\* 'other' collections produce a violation record, 'critical' for a write
\* and 'warning' for a read; a file's severity_score is reads on other * 1 +
\* writes on other * 5, and the global and per-module severity_score are the
\* sums of their files' scores.
C15_OwnershipAndSeverity ==
    acc.finalized =>
        LET db == acc.r.db_coupling
            fed == acc.order
            WithOps == SelectSeq(fed, LAMBDA f : f.readable /\ f.operations # <<>>)
        IN  /\ \A c \in DOMAIN db.collections_accessed :
                  db.collections_accessed[c].ownership = OwnershipOf(c)
            /\ DOMAIN db.collections_accessed =
                  UNION { { WithOps[i].operations[j].collection :
                              j \in 1..Len(WithOps[i].operations) } :
                          i \in 1..Len(WithOps) }
            /\ db.violations = ViolationsOf(fed)
            /\ \A i \in 1..Len(db.top_coupled_files) :
                  \E j \in 1..Len(WithOps) :
                     /\ WithOps[j].file = db.top_coupled_files[i].file
                     /\ db.top_coupled_files[i].severity_score = SeverityOf(WithOps[j])
                     /\ db.top_coupled_files[i].violations = Len(OtherOps(WithOps[j]))
            /\ Len(db.top_coupled_files) = Len(WithOps)
            /\ db.severity_score = SeveritySum(fed)
            /\ \A m \in AccModuleNames :
                  DictGet(db.by_module, m, DbModuleDefault).severity_score
                      = SeveritySum(SelectSeq(fed, LAMBDA f : f.module = m))

\* files with a write and with a read on another service's collection, and
\* with operations on an own, a shared and a doubly listed collection
C15_Witness ==
    /\ acc.finalized
    /\ \E i \in 1..Len(acc.r.db_coupling.violations) :
          acc.r.db_coupling.violations[i].severity = "critical"
    /\ \E i \in 1..Len(acc.r.db_coupling.violations) :
          acc.r.db_coupling.violations[i].severity = "warning"
    /\ {"users", "logs", "audit", "orders"} \subseteq DOMAIN acc.r.db_coupling.collections_accessed
    /\ acc.r.db_coupling.collections_accessed["audit"].ownership = "own"
    /\ Cardinality(DOMAIN acc.r.db_coupling.by_module) > 1

(***************************************************************************)
(* The database-coupling analyzer on more files than top_coupled_files     *)
(* keeps                                                                   *)
(***************************************************************************)
\* the operations _extract_operations finds in four kinds of file: severity
\* 5, 1, 0 and 6
StreamKinds ==
    << <<Op("orders", "write")>>,
       <<Op("orders", "read")>>,
       <<Op("users", "read")>>,
       <<Op("orders", "write"), Op("orders", "read")>> >>

Digits == <<"0", "1", "2", "3", "4", "5", "6", "7", "8", "9">>

\* the i-th file of module "a", with the given operations
StreamFile(i, operations) ==
    [file |-> P_a \o <<"/", "f", Digits[(i \div 10) + 1], Digits[(i % 10) + 1]>>,
     module |-> P_a, readable |-> TRUE, operations |-> operations,
     mixed_logic |-> FALSE]

MaxStreamFiles == 22

\* n files whose kinds repeat (step 0), rise (step 1) or fall (step 3)
StreamPlan(n, step, offset) ==
    [i \in 1..n |-> StreamFile(i, StreamKinds[((i * step + offset) % 4) + 1])]

StreamPlans ==
    { StreamPlan(n, step, offset) :
        n \in 0..MaxStreamFiles, step \in {0, 1, 3}, offset \in 0..3 }

StreamAnalyzeFile ==
    /\ ~ds.finalized
    /\ ds.fed < Len(ds.plan)
    /\ ds' = [ds EXCEPT !.fed = @ + 1, !.r = DbAnalyzeFile(@, ds.plan[ds.fed + 1])]
    /\ UNCHANGED <<auxVars, detVars, pipeVars, acc, hs, td, mcs, cl>>

StreamFinalize ==
    /\ ~ds.finalized
    /\ ds.fed = Len(ds.plan)
    /\ ds' = [ds EXCEPT !.r = DbFinalize(@), !.finalized = TRUE]
    /\ UNCHANGED <<auxVars, detVars, pipeVars, acc, hs, td, mcs, cl>>

InitStream ==
    /\ config = Config("manual", 1, AccModules, <<>>)
    /\ modules = AccModules
    /\ cache = EmptyCache
    /\ ret = NoRet
    /\ calls = 0
    /\ PipeIdle
    /\ acc = AccIdle
    /\ hs = HealthIdle
    /\ td = DebtIdle
    /\ mcs = CouplingIdle
    /\ cl = ClassIdle
    /\ cf = ConfigIdle
    /\ itm = InferIdle
    /\ \E plan \in StreamPlans :
          ds = [plan |-> plan, fed |-> 0, r |-> DbCouplingResults, finalized |-> FALSE]

NextStream ==
    \/ StreamAnalyzeFile
    \/ StreamFinalize

SpecStream == InitStream /\ [][NextStream]_vars

\* C16: after finalize, top_coupled_files holds at most 20 entries, each a
\* different file with datastore operations, in non-increasing
\* severity_score order, and every file with datastore operations that is
\* left out has a severity_score no greater than that of every entry kept.
C16_TopCoupledFiles ==
    ds.finalized =>
        LET top == ds.r.top_coupled_files
            kept == { top[i].file : i \in 1..Len(top) }
        IN  /\ Len(top) <= 20
            /\ Len(top) = IF Len(ds.plan) < 20 THEN Len(ds.plan) ELSE 20
            /\ Cardinality(kept) = Len(top)
            /\ \A i \in 1..Len(top) :
                  \E j \in 1..Len(ds.plan) :
                     /\ ds.plan[j].file = top[i].file
                     /\ SeverityOf(ds.plan[j]) = top[i].severity_score
            /\ \A i \in 1..(Len(top) - 1) :
                  top[i].severity_score >= top[i + 1].severity_score
            /\ \A j \in 1..Len(ds.plan) :
                  ds.plan[j].file \notin kept =>
                      \A i \in 1..Len(top) :
                          SeverityOf(ds.plan[j]) <= top[i].severity_score

\* more than 20 files were fed, the 21st is kept and a file fed before it
\* is left out
C16_Witness ==
    /\ ds.finalized
    /\ Len(ds.plan) > 20
    /\ \E i \in 1..Len(ds.r.top_coupled_files) :
          ds.r.top_coupled_files[i].file = ds.plan[21].file
    /\ \E j \in 1..20 :
          \A i \in 1..Len(ds.r.top_coupled_files) :
              ds.r.top_coupled_files[i].file # ds.plan[j].file

(***************************************************************************)
(* Averages and ratios after finalize                                      *)
(***************************************************************************)
\* sum / count, and 0.0 when the count is 0
AverageOf(sum, count) == IF count = 0 THEN Zero ELSE Ratio(sum, count)

\* a finite value equal to the expected one
IsValue(x, expected) == x[2] # 0 /\ x[1] * expected[2] = expected[1] * x[2]

\* the sum of F over the files of a set
SumOfFiles(S, F(_)) ==
    LET RECURSIVE Add(_)
        Add(T) == IF T = {} THEN 0
                  ELSE LET f == CHOOSE f \in T : TRUE IN F(f) + Add(T \ {f})
    IN  Add(S)

BlockCount(f) == Len(f.blocks)
BlockSum(f) == Sum([i \in 1..Len(f.blocks) |-> f.blocks[i].complexity])
MiOf(f) == f.mi
SlocOf(f) == f.raw.sloc
CommentsOf(f) == f.raw.comments
LocOf(f) == f.raw.loc
OneEach(f) == 1
ClassCount(f) == Len(SelectSeq(f.classes, LAMBDA c : c.methods > 0))
LcomSum(f) == Sum([i \in 1..Len(f.classes) |->
                     IF f.classes[i].methods > 0 THEN f.classes[i].lcom ELSE 0])
WmcSum(f) == Sum([i \in 1..Len(f.classes) |->
                    IF f.classes[i].methods > 0 THEN f.classes[i].wmc ELSE 0])
UnitTests(f) == IF f.is_test /\ ~f.integration THEN Len(f.tests) ELSE 0
AllTests(f) == IF f.is_test THEN Len(f.tests) ELSE 0
EdgeTests(f) == IF f.is_test THEN Len(SelectSeq(f.tests, LAMBDA t : t.edge)) ELSE 0

\* the public production functions of a module and those of them with a
\* test named after them among the tests inferred for the module
PublicFunctions(S, m) ==
    UNION { { f.functions[i].name : i \in 1..Len(f.functions) } \ PrivateNames :
            f \in { g \in S : ~g.is_test /\ g.module = m } }
TestedFunctions(S, m) ==
    { p \in PublicFunctions(S, m) :
        \E f \in S : /\ f.is_test
                     /\ f.inferred_module = m
                     /\ \E i \in 1..Len(f.tests) : f.tests[i].name = TestName(p) }

\* C17: after finalize and calculate, every average or ratio is a finite
\* value: the quotient of the sum and the count over the files it is about
\* (a module's over the files of that module only), and 0.0 when that count
\* is 0.  This holds for the global and per-module average complexity,
\* average maintainability, average file size, comment ratio, LCOM and WMC
\* averages, unit/integration and edge-case percentages, function coverage,
\* module instability, and the overall and per-module debt ratio.
C17_ZeroDenominatorsGiveZero ==
    td.finalized =>
        LET S == td.files
            In(m) == { f \in S : f.module = m }
            TestsOf(m) == { f \in S : f.is_test /\ f.inferred_module = m }
            cx == td.inputs.complexity
            mi == td.inputs.maintainability
            cs == td.inputs.code_size
            cm == td.inputs.class_metrics
            ts == td.inputs.tests
            mc == td.inputs.module_coupling
        IN  /\ IsValue(cx.avg_complexity,
                       AverageOf(SumOfFiles(S, BlockSum), SumOfFiles(S, BlockCount)))
            /\ \A m \in DOMAIN cx.by_module :
                  IsValue(cx.by_module[m].avg_complexity,
                          AverageOf(SumOfFiles(In(m), BlockSum),
                                    SumOfFiles(In(m), BlockCount)))
            /\ IsValue(mi.avg_mi, AverageOf(SumOfFiles(S, MiOf), Cardinality(S)))
            /\ \A m \in DOMAIN mi.by_module :
                  IsValue(mi.by_module[m].avg_mi,
                          AverageOf(SumOfFiles(In(m), MiOf), Cardinality(In(m))))
            /\ IsValue(cs.comment_ratio,
                       AverageOf(SumOfFiles(S, CommentsOf) * 100, SumOfFiles(S, LocOf)))
            /\ \A m \in DOMAIN cs.by_module :
                  /\ IsValue(cs.by_module[m].avg_file_size,
                             AverageOf(SumOfFiles(In(m), SlocOf), Cardinality(In(m))))
                  /\ IsValue(cs.by_module[m].comment_ratio,
                             AverageOf(SumOfFiles(In(m), CommentsOf) * 100,
                                       SumOfFiles(In(m), LocOf)))
            /\ IsValue(cm.avg_lcom,
                       AverageOf(SumOfFiles(S, LcomSum), SumOfFiles(S, ClassCount)))
            /\ IsValue(cm.avg_wmc,
                       AverageOf(SumOfFiles(S, WmcSum), SumOfFiles(S, ClassCount)))
            /\ \A m \in DOMAIN cm.by_module :
                  /\ IsValue(cm.by_module[m].avg_lcom,
                             AverageOf(SumOfFiles(In(m), LcomSum),
                                       SumOfFiles(In(m), ClassCount)))
                  /\ IsValue(cm.by_module[m].avg_wmc,
                             AverageOf(SumOfFiles(In(m), WmcSum),
                                       SumOfFiles(In(m), ClassCount)))
            /\ IsValue(ts.test_ratio.unit_percentage,
                       AverageOf(SumOfFiles(S, UnitTests) * 100, SumOfFiles(S, AllTests)))
            /\ IsValue(ts.test_ratio.integration_percentage,
                       AverageOf((SumOfFiles(S, AllTests) - SumOfFiles(S, UnitTests)) * 100,
                                 SumOfFiles(S, AllTests)))
            /\ IsValue(ts.edge_case_analysis.edge_case_percentage,
                       AverageOf(SumOfFiles(S, EdgeTests) * 100, SumOfFiles(S, AllTests)))
            /\ \A m \in DOMAIN ts.by_module :
                  /\ IsValue(ts.by_module[m].testability_score,
                             AverageOf(SumOfFiles(TestsOf(m), UnitTests) * 100,
                                       SumOfFiles(TestsOf(m), AllTests)))
                  /\ IsValue(ts.by_module[m].edge_case_percentage,
                             AverageOf(SumOfFiles(TestsOf(m), EdgeTests) * 100,
                                       SumOfFiles(TestsOf(m), AllTests)))
                  /\ IsValue(ts.by_module[m].function_coverage,
                             AverageOf(Cardinality(TestedFunctions(S, m)) * 100,
                                       Cardinality(PublicFunctions(S, m))))
            /\ \A m \in DOMAIN mc.per_module :
                  LET stats == mc.per_module[m] IN
                  IsValue(stats.instability,
                          AverageOf(stats.efferent_coupling,
                                    stats.afferent_coupling + stats.efferent_coupling))
            /\ td.done =>
                  /\ td.results.debt_ratio[2] # 0
                  /\ SumOfFiles(S, SlocOf) = 0 => td.results.debt_ratio = Whole(0)
                  /\ \A m \in DOMAIN td.results.by_module :
                        /\ td.results.by_module[m].debt_ratio[2] # 0
                        /\ SumOfFiles(In(m), SlocOf) = 0
                           => td.results.by_module[m].debt_ratio = Whole(0)

\* two modules after calculate: one with a function and an import of the
\* other, the other with an empty test file only, so that its test
\* percentages, its function coverage, its comment ratio and its debt ratio
\* all have a zero denominator, while the module averages differ from the
\* global ones
C17_Witness ==
    /\ td.done
    /\ \E m \in DOMAIN td.inputs.tests.by_module :
          /\ td.inputs.tests.by_module[m].test_files = 1
          /\ td.inputs.tests.by_module[m].unit_tests = 0
          /\ td.inputs.tests.by_module[m].integration_tests = 0
          /\ td.inputs.tests.by_module[m].function_coverage = Zero
          /\ m \in DOMAIN td.inputs.code_size.by_module
          /\ td.inputs.code_size.by_module[m].total_loc = 0
          /\ td.inputs.code_size.by_module[m].comment_ratio = Zero
          /\ m \in DOMAIN td.results.by_module
          /\ td.results.by_module[m].debt_ratio = Whole(0)
    /\ td.inputs.complexity.total_functions > 0
    /\ td.inputs.class_metrics.total_classes = 0
    /\ td.inputs.class_metrics.avg_lcom = Zero
    /\ td.inputs.tests.total_test_functions = 0
    /\ td.inputs.tests.test_ratio.unit_percentage = Zero
    /\ \E m \in DOMAIN td.inputs.module_coupling.per_module :
          td.inputs.module_coupling.per_module[m].efferent_coupling = 1
    /\ \E m \in DOMAIN td.inputs.maintainability.by_module :
          ~IsValue(td.inputs.maintainability.by_module[m].avg_mi,
                   td.inputs.maintainability.avg_mi)

(***************************************************************************)
(* The complexity distribution                                             *)
(***************************************************************************)
\* the complexity scores of the functions of the files analyzed so far
RECURSIVE ScoresOf(_)
ScoresOf(files) ==
    IF files = <<>> THEN <<>>
    ELSE (IF Head(files).readable
          THEN [i \in 1..Len(Head(files).blocks) |-> Head(files).blocks[i].complexity]
          ELSE <<>>)
         \o ScoresOf(Tail(files))

\* how many of the scores lie in lo..hi
ScoresWithin(scores, lo, hi) ==
    Cardinality({ i \in 1..Len(scores) : lo <= scores[i] /\ scores[i] <= hi })

\* C18: after any sequence of analyzed files, the distribution counts the
\* functions with a score <= 5 as simple, 6..10 as moderate, 11..20 as
\* complex and > 20 as very complex, and the four buckets add up to
\* total_functions.
C18_DistributionPartitionsFunctions ==
    LET scores == ScoresOf(acc.order)
        d == acc.r.complexity.distribution
        top == SetMax({0} \cup { scores[i] : i \in 1..Len(scores) })
    IN  /\ d.simple_1_5 = ScoresWithin(scores, 0, 5)
        /\ d.moderate_6_10 = ScoresWithin(scores, 6, 10)
        /\ d.complex_11_20 = ScoresWithin(scores, 11, 20)
        /\ d.very_complex_21_plus = ScoresWithin(scores, 21, top)
        /\ acc.r.complexity.total_functions = Len(scores)
        /\ d.simple_1_5 + d.moderate_6_10 + d.complex_11_20 + d.very_complex_21_plus
           = acc.r.complexity.total_functions

\* three files analyzed with functions of score 5, 6, 10, 11, 20 and 21: on
\* both sides of every bound
C18_Witness ==
    /\ Len(acc.order) = 3
    /\ \A c \in {5, 6, 10, 11, 20, 21} :
          \E i \in 1..Len(ScoresOf(acc.order)) : ScoresOf(acc.order)[i] = c
    /\ acc.r.complexity.distribution.simple_1_5 > 0
    /\ acc.r.complexity.distribution.moderate_6_10 > 0
    /\ acc.r.complexity.distribution.complex_11_20 > 0
    /\ acc.r.complexity.distribution.very_complex_21_plus > 0

(***************************************************************************)
(* The module-coupling analyzer on a code base of many modules             *)
(***************************************************************************)
MaxCouplingModules == 8

\* one-letter module names, none a prefix of another
CouplingLetters == <<"m", "a", "b", "c", "d", "e", "f", "g", "h", "k">>

CouplingModules(n) ==
    [i \in 1..n |-> Module(<<CouplingLetters[i]>>, <<CouplingLetters[i]>>)]

\* One file per module.  The file of the first module imports a module of
\* the standard library and the next ce modules; the files of the next ca
\* modules import the first module.
CouplingFiles(n, ca, ce) ==
    [i \in 1..n |->
        [file |-> <<CouplingLetters[i], "/", "x">>, module |-> <<CouplingLetters[i]>>,
         readable |-> TRUE,
         imports |-> IF i = 1
                     THEN << <<"o", "s">> >> \o [k \in 1..ce |-> <<CouplingLetters[k + 1]>>]
                     ELSE IF i - 1 <= ca THEN << <<CouplingLetters[1]>> >> ELSE <<>>]]

CouplingPlans ==
    { [mods |-> CouplingModules(n), files |-> CouplingFiles(n, ca, ce)] :
        n \in 1..MaxCouplingModules, ca \in 0..(MaxCouplingModules - 1),
        ce \in 0..(MaxCouplingModules - 1) }

\* ModuleCouplingAnalyzer.analyze_file on the next file
ModuleCouplingAnalyzeFile ==
    /\ ~mcs.finalized
    /\ mcs.fed < Len(mcs.files)
    /\ mcs' = [mcs EXCEPT !.fed = @ + 1,
                        !.r = CouplingAnalyzeFile(@, mcs.files[mcs.fed + 1])]
    /\ UNCHANGED <<auxVars, detVars, pipeVars, acc, hs, td, ds, cl>>

\* ModuleCouplingAnalyzer.finalize_results
ModuleCouplingFinalize ==
    /\ ~mcs.finalized
    /\ mcs.fed = Len(mcs.files)
    /\ mcs' = [mcs EXCEPT !.r = CouplingFinalize(@), !.finalized = TRUE,
                        !.first = CouplingFinalize(mcs.r)]
    /\ UNCHANGED <<auxVars, detVars, pipeVars, acc, hs, td, ds, cl>>

\* a second finalize_results call on the same analyzer; first keeps what
\* the first call returned, as it was then
ModuleCouplingFinalizeAgain ==
    /\ mcs.finalized
    /\ ~mcs.again
    /\ mcs' = [mcs EXCEPT !.r = CouplingFinalize(@), !.again = TRUE]
    /\ UNCHANGED <<auxVars, detVars, pipeVars, acc, hs, td, ds, cl>>

InitCoupling ==
    /\ config = Config("manual", 1, AccModules, <<>>)
    /\ modules = AccModules
    /\ cache = EmptyCache
    /\ ret = NoRet
    /\ calls = 0
    /\ PipeIdle
    /\ acc = AccIdle
    /\ hs = HealthIdle
    /\ td = DebtIdle
    /\ ds = StreamIdle
    /\ cl = ClassIdle
    /\ cf = ConfigIdle
    /\ itm = InferIdle
    /\ \E plan \in CouplingPlans :
          mcs = [mods |-> plan.mods, files |-> plan.files, fed |-> 0,
                r |-> ModuleCouplingResults(plan.mods), finalized |-> FALSE,
                first |-> None, again |-> FALSE]

NextCoupling ==
    \/ ModuleCouplingAnalyzeFile
    \/ ModuleCouplingFinalize
    \/ ModuleCouplingFinalizeAgain

SpecCoupling == InitCoupling /\ [][NextCoupling]_vars

\* the tracked modules a file imports, by name
TrackedImports(f, names) ==
    { f.imports[i] : i \in 1..Len(f.imports) } \cap names

\* Ca and Ce of a module, from the files
EfferentOf(m, files, names) ==
    Cardinality(UNION { TrackedImports(files[i], names) \ {m} :
                        i \in { j \in 1..Len(files) : files[j].module = m } })
AfferentOf(m, files, names) ==
    Cardinality({ files[i].module : i \in { j \in 1..Len(files) :
                     /\ files[j].module # m
                     /\ m \in TrackedImports(files[j], names) } })

\* C19: at finalize, with I = Ce/(Ca+Ce) and I = 0 when Ca = Ce = 0,
\* stable_modules holds exactly the tracked modules with I <= 0.3,
\* unstable_modules exactly those with I >= 0.7, and stability_category is
\* "stable" iff I < 0.3, "unstable" iff I > 0.7 and "moderate" otherwise.
C19_ListsAndCategoryIndependent ==
    mcs.finalized =>
        LET names == { mcs.mods[i].name : i \in 1..Len(mcs.mods) }
            ca(m) == AfferentOf(m, mcs.files, names)
            ce(m) == EfferentOf(m, mcs.files, names)
            \* I compared with t tenths
            Below(m, t) == 10 * ce(m) < t * (ca(m) + ce(m))
            Above(m, t) == 10 * ce(m) > t * (ca(m) + ce(m))
            Is(m, t) == 10 * ce(m) = t * (ca(m) + ce(m))
            None0(m) == ca(m) + ce(m) = 0
        IN  /\ DOMAIN mcs.r.per_module = names
            /\ mcs.r.stable_modules =
                  { m \in names : None0(m) \/ Below(m, 3) \/ Is(m, 3) }
            /\ mcs.r.unstable_modules =
                  { m \in names : ~None0(m) /\ (Above(m, 7) \/ Is(m, 7)) }
            /\ \A m \in names :
                  /\ IsValue(mcs.r.per_module[m].instability,
                             AverageOf(ce(m), ca(m) + ce(m)))
                  /\ mcs.r.per_module[m].stability_category = "stable"
                        <=> (None0(m) \/ Below(m, 3))
                  /\ mcs.r.per_module[m].stability_category = "unstable"
                        <=> (~None0(m) /\ Above(m, 7))
                  /\ mcs.r.per_module[m].stability_category = "moderate"
                        <=> (~None0(m) /\ ~Below(m, 3) /\ ~Above(m, 7))

\* a module with Ce = 3 and Ca = 7 is in the stable list with the category
\* "moderate", next to a module nothing imports and that imports nothing,
\* which is in the stable list with the category "stable"
C19_Witness ==
    /\ mcs.finalized
    /\ \E m \in mcs.r.stable_modules :
          /\ mcs.r.per_module[m].efferent_coupling = 3
          /\ mcs.r.per_module[m].afferent_coupling = 7
          /\ mcs.r.per_module[m].stability_category = "moderate"
    /\ mcs.r.unstable_modules # {}

(***************************************************************************)
(* ClassMetricsAnalyzer on one class: LCOM and the cohesion label          *)
(***************************************************************************)
MaxMethods == 3

AttributeNames == { "a", "b" }

\* A class as the AST shows it: for each method of the class body the
\* self.<name> references inside it, and the self.<name> references
\* elsewhere in the class (nested classes, async methods).
Classes ==
    { [methods |-> ms, elsewhere |-> e] :
        ms \in UNION { [1..n -> SUBSET AttributeNames] : n \in 0..MaxMethods },
        e \in SUBSET AttributeNames }

\* ClassMetricsAnalyzer._get_class_attributes: every self.<name> under the
\* class node
GetClassAttributes(c) ==
    UNION { c.methods[i] : i \in 1..Len(c.methods) } \cup c.elsewhere

\* _calculate_lcom taking half of the methods as already too many
CalculateLcom_HalfInclusive(methods, attributes) ==
    IF methods = <<>> \/ attributes = {} THEN 1
    ELSE LET method_attributes ==
                 [i \in 1..Len(methods) |-> methods[i] \cap attributes]
             isolated_count ==
                 Cardinality({ i \in 1..Len(methods) : method_attributes[i] = {} })
         IN  IF \A i \in 1..Len(methods) : method_attributes[i] = {} THEN 1
             ELSE IF isolated_count = Len(methods) THEN Len(methods)
             ELSE IF 2 * isolated_count >= Len(methods) THEN 3
             ELSE IF isolated_count > 0 THEN 2
             ELSE 1

\* ClassMetricsAnalyzer._calculate_lcom
CalculateLcom(methods, attributes) ==
    IF methods = <<>> \/ attributes = {} THEN 1
    ELSE LET method_attributes ==
                 [i \in 1..Len(methods) |-> methods[i] \cap attributes]
             isolated_count ==
                 Cardinality({ i \in 1..Len(methods) : method_attributes[i] = {} })
         IN  IF \A i \in 1..Len(methods) : method_attributes[i] = {} THEN 1
             ELSE IF isolated_count = Len(methods) THEN Len(methods)
             \* isolated_count > len(methods) / 2
             ELSE IF 2 * isolated_count > Len(methods) THEN 3
             ELSE IF isolated_count > 0 THEN 2
             ELSE 1

\* what _analyze_class returns when the class has no method
NoClassInfo == [returned |-> FALSE, methods |-> 0, lcom |-> 0, cohesion_level |-> ""]

\* ClassMetricsAnalyzer._analyze_class: method count, LCOM and label
AnalyzeClass(c) ==
    LET method_count == Len(c.methods) IN
    IF method_count = 0 THEN NoClassInfo
    ELSE LET lcom == CalculateLcom(c.methods, GetClassAttributes(c))
         IN  [returned |-> TRUE, methods |-> method_count, lcom |-> lcom,
              cohesion_level |-> IF lcom <= 1 THEN "high"
                                 ELSE IF lcom = 2 THEN "moderate" ELSE "low"]

ClassAnalyze ==
    /\ ~cl.done
    /\ cl' = [cl EXCEPT !.info = AnalyzeClass(cl.class), !.done = TRUE]
    /\ UNCHANGED <<auxVars, detVars, pipeVars, acc, hs, td, ds, mcs>>

InitClass ==
    /\ config = Config("manual", 1, AccModules, <<>>)
    /\ modules = AccModules
    /\ cache = EmptyCache
    /\ ret = NoRet
    /\ calls = 0
    /\ PipeIdle
    /\ acc = AccIdle
    /\ hs = HealthIdle
    /\ td = DebtIdle
    /\ ds = StreamIdle
    /\ mcs = CouplingIdle
    /\ \E c \in Classes : cl = [class |-> c, info |-> NoClassInfo, done |-> FALSE]
    /\ cf = ConfigIdle
    /\ itm = InferIdle

NextClass == ClassAnalyze

SpecClass == InitClass /\ [][NextClass]_vars

\* the methods of a class that reference none of its attributes
IsolatedMethods(c) ==
    { i \in 1..Len(c.methods) : c.methods[i] \cap GetClassAttributes(c) = {} }

RECURSIVE AnalyzedClasses(_)
AnalyzedClasses(files) ==
    IF files = <<>> THEN <<>>
    ELSE LET f == Head(files)
             cs == IF f.readable /\ f.parses
                   THEN SelectSeq(f.classes, LAMBDA c : c.methods > 0) ELSE <<>>
         IN  [i \in 1..Len(cs) |-> [module |-> f.module, file |-> f.file] @@ cs[i]]
             \o AnalyzedClasses(Tail(files))

\* the conditions of a god class and the reasons they call for
ExceedsAThreshold(c) == c.methods > 20 \/ c.wmc > 50 \/ c.lcom > 2
ReasonCount(c) ==
    (IF c.methods > 20 THEN 1 ELSE 0) + (IF c.wmc > 50 THEN 1 ELSE 0)
    + (IF c.lcom > 2 THEN 1 ELSE 0)

\* C21: a class with at least one method is recorded in god_classes iff
\* its method count, its WMC or its LCOM exceeds its threshold, with one
\* reason per condition that holds; and after any sequence of files each
\* module's god_classes_count is the number of god_classes entries of that
\* module.
C21_GodClassesAndModuleCounts ==
    LET cm == acc.r.class_metrics
        cs == AnalyzedClasses(acc.order)
        gods == SelectSeq(cs, ExceedsAThreshold)
        EntriesOf(m) == { i \in 1..Len(cm.god_classes) : cm.god_classes[i].module = m }
    IN  /\ Len(cm.god_classes) = Len(gods)
        /\ \A i \in 1..Len(gods) :
              \E j \in 1..Len(cm.god_classes) :
                 /\ cm.god_classes[j].class = gods[i].class
                 /\ cm.god_classes[j].file = gods[i].file
                 /\ cm.god_classes[j].methods = gods[i].methods
                 /\ Len(cm.god_classes[j].reasons) = ReasonCount(gods[i])
        /\ \A m \in DOMAIN cm.by_module :
              cm.by_module[m].god_classes_count = Cardinality(EntriesOf(m))

(***************************************************************************)
(* Function coverage                                                       *)
(***************************************************************************)
\* the test analyzer fed the files in the given order, then finalized
RECURSIVE TestsInOrder(_, _)
TestsInOrder(r, order) ==
    IF order = <<>> THEN TestsFinalize(r)
    ELSE TestsInOrder(TestsAnalyzeFile(r, Head(order)), Tail(order))

\* C22: at finalize, for each module, functions_with_tests is the number of
\* distinct public production function names f tracked for the module for
\* which a test file inferred to belong to the module defines test_f, and
\* function_coverage is that number / the number of distinct tracked names
\* * 100, whatever the order test and production files were analyzed in.
C22_FunctionCoverage ==
    td.finalized =>
        \A order \in Orders(td.files) :
            LET ts == TestsInOrder(TestsResults, order) IN
            /\ ts.by_module = td.inputs.tests.by_module
            /\ \A m \in DOMAIN ts.by_module :
                  LET tracked == PublicFunctions(td.files, m)
                      tested == TestedFunctions(td.files, m)
                  IN  /\ ts.by_module[m].functions_with_tests = Cardinality(tested)
                      /\ tracked # {} =>
                            /\ ts.by_module[m].function_coverage[2] = Cardinality(tracked)
                            /\ ts.by_module[m].function_coverage[1]
                                  = Cardinality(tested) * 100

\* a module with two public functions, one of which has its test in a test
\* file that lies in another module's directory: coverage 1 of 2
C22_Witness ==
    /\ td.finalized
    /\ \E m \in DOMAIN td.inputs.tests.by_module :
          /\ td.inputs.tests.by_module[m].functions_with_tests = 1
          /\ td.inputs.tests.by_module[m].function_coverage = Ratio(100, 2)
          /\ \E f \in td.files : f.is_test /\ f.inferred_module = m /\ f.module # m

(***************************************************************************)
(* Properties of detect_modules                                            *)
(***************************************************************************)
\* a directory that is hidden or matches an exclude pattern, by its name or
\* by its root-relative path
Pruned(d, exclude_patterns) ==
    \/ Head(d[Len(d)]) = "."
    \/ \E i \in 1..Len(exclude_patterns) :
          \/ Fnmatch(d[Len(d)], exclude_patterns[i])
          \/ Fnmatch(JoinPath(d), exclude_patterns[i])

\* the directories depth segments below the root with no pruned directory
\* on their path, themselves included
DirectoriesAtDepth(depth, exclude_patterns) ==
    { d \in Tree : /\ Len(d) = depth
                   /\ \A k \in 1..Len(d) : ~Pruned(SubSeq(d, 1, k), exclude_patterns) }

\* the step is a call of detect_modules
DetectCall == calls' = calls + 1 /\ config' = config /\ ret'.op = "detect"

\* C23: in auto mode with depth d >= 1, detect_modules returns exactly one
\* module for each directory d path segments below the root with no hidden
\* or exclude-pattern-matching directory on its path, itself included, named
\* after the directory, with the root-relative path as its path; no other
\* directory is emitted.
C23_AutoDetectsDirectoriesAtDepth ==
    [][(/\ DetectCall
        /\ config.method = "auto" /\ config.depth >= 1
        /\ DetectModules) =>
          LET dirs == DirectoriesAtDepth(config.depth, config.exclude_patterns)
              val == ret'.val
          IN  /\ ~ret'.raised
              /\ Len(val) = Cardinality(dirs)
              /\ { val[i] : i \in 1..Len(val) }
                    = { [name |-> d[Len(d)], path |-> JoinPath(d)] : d \in dirs }
              /\ modules' = val]_vars

\* depth 2 with the patterns "ab" and "a/*": of the directories a/b, b/b and
\* .h/b only b/b is a module
C23_Witness ==
    /\ ret.op = "detect"
    /\ ~ret.raised
    /\ Len(ret.val) = 1
    /\ ret.val[1] = Module(P_b, P_b_b)
    /\ Len(config.exclude_patterns) = 2
    /\ config.depth = 2

\* C24: detect_modules with a method other than "auto" or "manual" fails
\* with a configuration error: it returns no module list, does not detect
\* in auto or manual mode, and leaves the stored module list unchanged.
C24_InvalidMethodFails ==
    [][(/\ DetectCall
        /\ config.method \notin {"auto", "manual"}
        /\ DetectModules) =>
          /\ ret'.raised
          /\ ret'.val = "ValueError"
          /\ modules' = modules]_vars

\* the call failed after an earlier call had stored a module list
C24_Witness ==
    /\ ret.op = "detect"
    /\ ret.raised
    /\ config.method = "bogus"
    /\ modules # <<>>

(***************************************************************************)
(* Properties of the file scanner                                          *)
(***************************************************************************)
\* C25: scan_python_files never yields a file that an exclude pattern
\* matches; each such file increments files_skipped instead of
\* files_scanned, and every .py file found is counted in exactly one of the
\* two counters.
C25_ExcludedFilesAreSkipped ==
    pc \in {"files", "debt", "health", "build", "done", "aborted"} =>
        LET matched == { i \in 1..Len(fsys) : fsys[i].excluded } IN
        /\ \A i \in 1..Len(all_files) : ~all_files[i].excluded
        /\ scanner.files_skipped = Cardinality(matched)
        /\ scanner.files_scanned = Len(fsys) - Cardinality(matched)
        /\ scanner.files_scanned + scanner.files_skipped = Len(fsys)

(***************************************************************************)
(* Properties of the module-coupling results                               *)
(***************************************************************************)
\* C26: after any sequence of analyzed files, the module-coupling results
\* mention only tracked modules: every dependency-graph edge joins two
\* distinct modules that are both among the graph's nodes, and every name
\* in a module's imports / imported_by list is a tracked module, also when
\* some analyzed files belong to the synthetic "root" module.
C26_OnlyTrackedModulesMentioned ==
    acc.finalized =>
        LET r == acc.r.module_coupling
            nodes == r.modules
        IN  /\ \A e \in r.edges : e[1] \in nodes /\ e[2] \in nodes /\ e[1] # e[2]
            /\ \A m \in DOMAIN r.per_module :
                  /\ r.per_module[m].imports \subseteq nodes
                  /\ r.per_module[m].imported_by \subseteq nodes

\* C27: for every per-file analyzer, a second finalize_results call on the
\* same accumulator either fails with an error or returns a result equal
\* to the first one; it never returns different aggregates such as
\* duplicated list entries or graph edges.  Here: the module-coupling
\* analyzer, whose finalize_results raises no error.
C27_SecondFinalizeReturnsTheSame ==
    mcs.again => mcs.r = mcs.first

(***************************************************************************)
(* load_config: the dict objects a process holds                           *)
(***************************************************************************)
\* A dict object is a place in cf.dicts; a nested dict is held by reference.
\* DEFAULT_CONFIG is the first object, its "module_detection" the second.
DEFAULT_CONFIG == 1

DefaultDicts ==
    << [service_name |-> "unknown", module_detection |-> 2],
       [method |-> "auto", depth |-> 1] >>

\* what a configuration file holds: a key is absent (<<>>) or has a value
UserConfigs ==
    { [service_name |-> sn, module_detection |-> md] :
        sn \in { <<>>, <<"claims">> },
        md \in { <<>>, << [depth |-> <<>>] >>, << [depth |-> <<2>>] >> } }

\* load_config(None) reads no file
NoConfigFile == [service_name |-> <<>>, module_detection |-> <<>>, file |-> FALSE]

ConfigPaths == { NoConfigFile } \cup { uc @@ [file |-> TRUE] : uc \in UserConfigs }

MaxLoads == 2
ServiceNames == { "claims", "billing" }
ModuleDepths == { 2, 3 }

\* dict.copy(): a new object with the same entries, nested dicts shared
DictCopy(dicts, ref) == Append(dicts, dicts[ref])

\* _deep_merge(base, update) for the two keys: the objects after the call
\* and the object returned
DeepMerge(dicts, base, update) ==
    LET d1 == DictCopy(dicts, base)
        result == Len(d1)
        d2 == IF update.service_name # <<>>
              THEN [d1 EXCEPT ![result].service_name = update.service_name[1]]
              ELSE d1
    IN  IF update.module_detection # <<>>
        THEN \* _deep_merge(result[key], value): a copy of the nested dict
             LET d3 == DictCopy(d2, d2[result].module_detection)
                 nested == Len(d3)
                 value == update.module_detection[1]
                 d4 == IF value.depth # <<>>
                       THEN [d3 EXCEPT ![nested].depth = value.depth[1]]
                       ELSE d3
             IN  [dicts |-> [d4 EXCEPT ![result].module_detection = nested],
                  result |-> result]
        ELSE [dicts |-> d2, result |-> result]

\* load_config: the objects after the call and the configuration returned
LoadConfigDicts(dicts, path) ==
    LET copied == DictCopy(dicts, DEFAULT_CONFIG)
    IN  IF ~path.file THEN [dicts |-> copied, result |-> Len(copied)]
        ELSE DeepMerge(copied, Len(copied), path)

\* the contents of a configuration, nested dict included
ConfigValue(dicts, ref) ==
    [service_name |-> dicts[ref].service_name,
     module_detection |-> dicts[dicts[ref].module_detection]]

\* load_config(config_path); loaded remembers the object returned and what
\* the file asked for
LoadConfig(path) ==
    /\ Len(cf.loaded) < MaxLoads
    /\ LET call == LoadConfigDicts(cf.dicts, path)
       IN  cf' = [dicts |-> call.dicts,
                  loaded |-> Append(cf.loaded,
                      [config |-> call.result, path |-> path,
                       returned |-> ConfigValue(call.dicts, call.result),
                       service_name |-> <<>>, module_depth |-> <<>>])]
    /\ UNCHANGED <<detVars, pipeVars, extVars, itm>>

\* main(): analyzer.config['service_name'] = args.service_name
OverrideServiceName(i, name) ==
    /\ i \in 1..Len(cf.loaded)
    /\ cf.loaded[i].service_name = <<>>
    /\ cf' = [cf EXCEPT !.dicts[cf.loaded[i].config].service_name = name,
                        !.loaded[i].service_name = <<name>>]
    /\ UNCHANGED <<detVars, pipeVars, extVars, itm>>

\* main(): analyzer.config['module_detection']['depth'] = args.module_depth
OverrideModuleDepth(i, depth) ==
    /\ i \in 1..Len(cf.loaded)
    /\ cf.loaded[i].module_depth = <<>>
    /\ cf' = [cf EXCEPT
                !.dicts[cf.dicts[cf.loaded[i].config].module_detection].depth = depth,
                !.loaded[i].module_depth = <<depth>>]
    /\ UNCHANGED <<detVars, pipeVars, extVars, itm>>

InitConfig ==
    /\ config = Config("manual", 1, AccModules, <<>>)
    /\ modules = AccModules
    /\ cache = EmptyCache
    /\ ret = NoRet
    /\ calls = 0
    /\ PipeIdle
    /\ acc = AccIdle
    /\ hs = HealthIdle
    /\ td = DebtIdle
    /\ ds = StreamIdle
    /\ mcs = CouplingIdle
    /\ cl = ClassIdle
    /\ cf = [dicts |-> DefaultDicts, loaded |-> <<>>]
    /\ itm = InferIdle

NextConfig ==
    \/ \E path \in ConfigPaths : LoadConfig(path)
    \/ \E i \in 1..MaxLoads, name \in ServiceNames : OverrideServiceName(i, name)
    \/ \E i \in 1..MaxLoads, depth \in ModuleDepths : OverrideModuleDepth(i, depth)

SpecConfig == InitConfig /\ [][NextConfig]_vars

\* what a configuration holds when only the defaults as written, its own
\* file and the overrides made on it count
OwnValue(l) ==
    LET md0 == DefaultDicts[2]
        md1 == IF l.path.module_detection # <<>>
                  /\ l.path.module_detection[1].depth # <<>>
               THEN [md0 EXCEPT !.depth = l.path.module_detection[1].depth[1]]
               ELSE md0
        md2 == IF l.module_depth # <<>> THEN [md1 EXCEPT !.depth = l.module_depth[1]]
               ELSE md1
        sn == IF l.service_name # <<>> THEN l.service_name[1]
              ELSE IF l.path.service_name # <<>> THEN l.path.service_name[1]
              ELSE DefaultDicts[1].service_name
    IN  [service_name |-> sn, module_detection |-> md2]

\* C28: each load_config call returns a configuration independent of the
\* defaults and of every other returned configuration: changing a nested
\* entry of one (module_detection.depth, service_name) leaves DEFAULT_CONFIG
\* and the result of every later load_config call unchanged.
C28_ConfigurationsAreIndependent ==
    cf.dicts # <<>> =>
        /\ ConfigValue(cf.dicts, DEFAULT_CONFIG) = ConfigValue(DefaultDicts, DEFAULT_CONFIG)
        /\ \A i \in 1..Len(cf.loaded) :
              /\ ConfigValue(cf.dicts, cf.loaded[i].config) = OwnValue(cf.loaded[i])
              /\ cf.loaded[i].returned =
                    OwnValue([cf.loaded[i] EXCEPT !.service_name = <<>>,
                                                  !.module_depth = <<>>])

(***************************************************************************)
(* TestAnalyzer.infer_test_module                                          *)
(***************************************************************************)
\* of ignore_modules, the name the model's test files import
IgnoreModules == { <<"o", "s">> }
TestDirNames == { <<"t", "e", "s", "t", "s">> }
UpperCase == { "X" }

\* sub in s, for Python strings
Contains(s, sub) ==
    \E i \in 0..(Len(s) - Len(sub)) : SubSeq(s, i + 1, i + Len(sub)) = sub

EndsWith(s, p) ==
    /\ Len(p) <= Len(s)
    /\ SubSeq(s, Len(s) - Len(p) + 1, Len(s)) = p

\* str.islower() for names made of letters and "_"
IsLower(s) ==
    /\ \A i \in 1..Len(s) : s[i] \notin UpperCase
    /\ \E i \in 1..Len(s) : s[i] # "_"

\* the module names the relative imports of the content give
RelativeImported(f) == { m \in f.relative : m # <<>> /\ m \notin IgnoreModules }

\* the top-level names the absolute imports give, those short enough
LocalModules(f) ==
    { m \in { t \in f.absolute : /\ t # <<>> /\ t \notin IgnoreModules
                                 /\ Head(t) # "_" /\ IsLower(t) } : Len(m) < 20 }

\* the set whose iteration order the result may depend on
InferCandidates(f) ==
    IF RelativeImported(f) # {} THEN RelativeImported(f) ELSE LocalModules(f)

\* the choice among the imported modules; order is the order in which the
\* set is iterated, which the interpreter fixes per process (str hashes are
\* salted at start-up)
PickImported(order, detected_module) ==
    IF Len(order) = 1 THEN order[1]
    ELSE LET matching == { i \in 1..Len(order) :
                             \/ Contains(detected_module, order[i])
                             \/ Contains(order[i], detected_module) }
         IN  IF matching # {}
             THEN order[CHOOSE i \in matching : \A j \in matching : i <= j]
             ELSE order[1]

\* TestAnalyzer.infer_test_module(file_path, detected_module, content)
InferTestModule(f, order) ==
    IF RelativeImported(f) # {} THEN PickImported(order, f.detected_module)
    ELSE IF LocalModules(f) # {} THEN PickImported(order, f.detected_module)
    ELSE LET test_dir_indices == { i \in 1..Len(f.path_parts) :
                                     f.path_parts[i] \in TestDirNames }
         IN  IF test_dir_indices # {}
             THEN LET test_dir_idx ==
                          CHOOSE i \in test_dir_indices :
                              \A j \in test_dir_indices : j <= i
                  IN  IF /\ test_dir_idx + 1 <= Len(f.path_parts)
                         /\ ~EndsWith(f.path_parts[test_dir_idx + 1], <<".", "p", "y">>)
                         /\ f.path_parts[test_dir_idx + 1] \notin IgnoreModules
                      THEN f.path_parts[test_dir_idx + 1]
                      ELSE f.detected_module
             ELSE f.detected_module

\* the test files: what the two import patterns find in the content, the
\* parts of the path and the module the path was detected as
TestFileName == <<"t", ".", "p", "y">>
InferFiles ==
    { [relative |-> rel, absolute |-> abs, path_parts |-> parts,
       detected_module |-> det] :
        rel \in SUBSET { P_a, P_b, P_x, <<"o", "s">> },
        abs \in SUBSET { P_ab, <<"x", "y">>, <<"o", "s">>, <<"_", "p">>, <<"X", "y">> },
        parts \in { <<<<"t", "e", "s", "t", "s">>, P_b, TestFileName>>,
                    <<<<"t", "e", "s", "t", "s">>, TestFileName>>,
                    <<<<"t", "e", "s", "t", "s">>, <<"o", "s">>, TestFileName>>,
                    <<P_a, TestFileName>> },
        det \in { P_a, P_ab, ROOT } }

MaxRuns == 2

\* one run of the analysis evaluates infer_test_module on the file
InferRun ==
    /\ Len(itm.runs) < MaxRuns
    /\ \E order \in Orders(InferCandidates(itm.file)) :
          itm' = [itm EXCEPT !.runs = Append(@, InferTestModule(itm.file, order))]
    /\ UNCHANGED <<detVars, pipeVars, extVars, cf>>

InitInfer ==
    /\ config = Config("manual", 1, AccModules, <<>>)
    /\ modules = AccModules
    /\ cache = EmptyCache
    /\ ret = NoRet
    /\ calls = 0
    /\ PipeIdle
    /\ acc = AccIdle
    /\ hs = HealthIdle
    /\ td = DebtIdle
    /\ ds = StreamIdle
    /\ mcs = CouplingIdle
    /\ cl = ClassIdle
    /\ cf = ConfigIdle
    /\ \E f \in InferFiles : itm = [file |-> f, runs |-> <<>>]

NextInfer == InferRun

SpecInfer == InitInfer /\ [][NextInfer]_vars

\* C29: infer_test_module is a deterministic function of (file path,
\* path-detected module, file content): two evaluations on the same input
\* return the same module, also when the file imports several candidate
\* modules none of which matches the path-detected module.
C29_InferTestModuleDeterministic ==
    Len(itm.runs) = 2 => itm.runs[1] = itm.runs[2]

(***************************************************************************)
(* Attribution on whole path segments                                      *)
(***************************************************************************)
\* the path lies inside the directory: it is the directory or continues it
\* after a separator
InsideDirectory(rel_path_str, dir) ==
    \/ rel_path_str = dir
    \/ StartsWith(rel_path_str, dir \o <<"/">>)

\* C30: a file is attributed to a module only when it lies inside that
\* module's directory, matched on whole path segments: a file under
\* directory 'ab' is never attributed to module 'a' (and likewise an import
\* of 'ab.x' creates no dependency on module 'a').
C30_AttributedOnWholeSegments ==
    (ret.op = "get" /\ ~ret.cached /\ ~ret.arg.outside /\ ret.val # ROOT) =>
        \E i \in 1..Len(modules) :
            /\ modules[i].name = ret.val
            /\ InsideDirectory(ret.arg.rel, modules[i].path)

====
